---- MODULE Spec2Model ----
(***************************************************************************)
(* Job orchestration (bin/cbmc.py), the AWS Batch client wrapper           *)
(* (bin/batch.py), the status monitor (bin/status.py) and the S3 locks      *)
(* (bin/lock.py over bin/s3.py).                                           *)
(*                                                                         *)
(* Python strings are modelled as sequences of tokens; re.search with a    *)
(* literal pattern is containment of a contiguous subsequence.  Standard   *)
(* output is kept as the number of printed lines that show each job with   *)
(* a final status.  Lock names are strings; time bounds are sequences of   *)
(* characters.                                                             *)
(***************************************************************************)
EXTENDS Integers, Sequences, FiniteSets

\* ------------------------------------------------------------------ bounds

\* Number of job identifiers the backend can hand out / hold in its queue.
NumJobs == 4

\* Number of jobs in the queue the monitor polls.
NumQueued == 2

\* ------------------------------------------------------------- basic values

\* Python None (for values that are otherwise token sequences).
None == <<"None">>

\* Python truthiness of an optional string: None and "" are false.
Truthy(s) == s # None /\ s # <<>>

\* `a or b` on optional strings.
Or(a, b) == IF Truthy(a) THEN a ELSE b

Phases == <<"build", "property", "coverage", "report">>

PhaseSet == {Phases[i] : i \in 1..Len(Phases)}

\* The status values of batch.py's job_status, in its query order.
StatusOrder ==
  <<"SUBMITTED", "PENDING", "RUNNABLE", "STARTING", "RUNNING", "SUCCEEDED", "FAILED">>

Terminal == {"SUCCEEDED", "FAILED"}

Digits == <<"1", "2", "3", "4", "5", "6", "7", "8", "9">>

\* Job identifiers of the backend: "j1", "j2", ...
JobIds == {<<"j", Digits[i]>> : i \in 1..NumJobs}

\* opts['jobname'], the name of the run.
RunName == <<"run">>

Region == <<"region">>

\* ---------------------------------------------------------------- variables

VARIABLES
  self,          \* CBMC instance: build, property, coverage, report, jobname
  pc,            \* position of submit_jobs
  build_job, property_job, coverage_job, report_job,
  buildjob, propertyjob, coveragejob,
  command,       \* submit_jobs: the local list `command`
  results,       \* return value of submit_jobs
  raised,        \* exception raised to the caller (None if none)
  queue,         \* backend: job id -> [jobName, dependsOn, status]
  calls,         \* submit requests issued by submit_jobs, in order
  mpc,           \* position of monitor_status
  args,          \* the jobname and jobid the caller passed to monitor_status
  jobname,       \* monitor_status: the local name jobname
  jobid,         \* monitor_status: the local name jobid
  status,        \* monitor_status: dict job id -> job, in insertion order
  jobs,          \* monitor_status: the list returned by the last poll
  query,         \* Batch.job_status: index of the status queried next
  poll_results,  \* Batch.job_status: the local list `results`
  listed,        \* Batch.job_status: status values queried by this call so far
  output,        \* display: job name -> number of printed lines that show
                 \* the job with a final status
  notified,      \* the last pass of the loop printed a notification
  settled,       \* the jobs matching args were all final when this poll began
  store,         \* S3: the keys of the objects in the lock bucket
  lop,           \* Lock: the method called last, with its arguments
  lpc,           \* Lock: position of that call
  lret,          \* Lock: the value the call returned
  response,      \* S3: the answer to the last request of that call
  seconds,       \* wait_for_*: the value of parse_bound(bound)
  attempts,      \* wait_for_*: the local name attempts
  polls,         \* waiter.wait: head_object requests made so far
  was_set,       \* the lock's object existed when the method was called
  quiet,         \* no other process has written the bucket since the call
  backend,       \* Batch: the job definitions and job queues of the account
  batch,         \* Batch.__init__: its arguments, its position, self.jobqueue
                 \* and self.jobdefinition
  docker, \* docker.py main: command line, config file, merged options, position
  launcher, \* generate_cbmc_jobs: position, proof index, jobs submitted, statuses posted
  options, \* phase_merge: position, parsed arguments, config file, merged options
  clog, \* CLogWriter instances of one task tree and the uuids drawn so far
  runs, \* cbmc-batch runs: the clock and the job name of every run started
  policy, \* get_existing_bucket_policy_accounts: position, get_bucket_policy answer, result
  trigger, \* the CodePipeline trigger lambda: position, event, params, jobs, reports
  checker, \* the CodePipeline status check: position, job names, status lines, outcomes
  worker  \* the GitHub worker lambda: position, SQS queue, received messages, updater, attempts

vars == <<self, pc, build_job, property_job, coverage_job, report_job,
          buildjob, propertyjob, coveragejob, command, results, raised, queue, calls,
          mpc, args, jobname, jobid, status, jobs, query, poll_results, listed,
          output, notified, settled,
          store, lop, lpc, lret, response, seconds, attempts, polls, was_set, quiet,
          backend, batch, docker, launcher, options, clog, runs, policy, trigger, checker, worker>>

\* The variables of the parts modelled further below.
miscVars == <<backend, batch, docker, launcher, options, clog, runs, policy, trigger, checker, worker>>

lockVars == <<store, lop, lpc, lret, response, seconds, attempts, polls, was_set, quiet>>

monVars == <<mpc, args, jobname, jobid, status, jobs, query, poll_results, listed,
             output, notified, settled>>

orchVars == <<self, pc, build_job, property_job, coverage_job, report_job,
              buildjob, propertyjob, coveragejob, command, results, raised>>

\* {'jobid': None, 'jobname': None}
NoJob == [jobid |-> None, jobname |-> None]

\* ------------------------------------------------------- bin/batch.py client

\* dict.get(key, None) on a backend response.
Get(result, key) == IF key \in DOMAIN result THEN result[key] ELSE None

\* dependson = [{'jobId': jid} for jid in dependson or []]
DependsOnArg(dependson) ==
  IF dependson = None THEN <<>>
  ELSE [i \in DOMAIN dependson |-> [jobId |-> dependson[i]]]

\* The request Batch.submit_job sends to client.submit_job.
SubmitRequest(name, cmd, memory, dependson) ==
  [op |-> "submit_job",
   jobName |-> Or(name, <<"cbmc">>),
   dependsOn |-> DependsOnArg(dependson),
   command |-> cmd \o <<"--region">> \o Region,
   memory |-> memory]

\* Return value of Batch.submit_job for the backend response `result`.
SubmitResult_NameAsId(result) ==
  [jobid |-> Get(result, "jobName"), jobname |-> Get(result, "jobName")]

SubmitResult(result) ==
  [jobid |-> Get(result, "jobId"), jobname |-> Get(result, "jobName")]

\* ----------------------------------------------------------- bin/cbmc.py

\* command = ['--jsons', json.dumps(self.opts)]
Command == <<"--jsons", "opts">>

\* The local list `command` after a launch that was given it as `flags`:
\* launch_* builds full_flags as a new list (flags + [...]) and submit_job
\* extends that new list, so the caller's list keeps its value.
CommandAfter_Aliased(flags, full_flags) == full_flags

CommandAfter(flags, full_flags) == flags

PhaseFlag(p) == "--do" \o p

\* jobname = "{}-<phase>".format(self.jobname)
PhaseJobName(p) == self.jobname \o <<"-", p>>

\* `if self.build:` ... `if self.report:` of submit_jobs.
Enabled_Always(p) == TRUE

Enabled(p) == self[p]

\* The dependson argument submit_jobs gives each launch: none for build
\* (launch_build's default), buildjob for property and coverage, and
\* propertyjob+coveragejob for report.
Dependson_Chained(p) ==
  CASE p = "build" -> None
    [] p = "property" -> buildjob
    [] p = "coverage" -> buildjob \o propertyjob
    [] p = "report" -> propertyjob \o coveragejob

Dependson_ReportSwapped(p) ==
  CASE p = "build" -> None
    [] p \in {"property", "coverage"} -> buildjob
    [] p = "report" -> coveragejob \o propertyjob

Dependson(p) ==
  CASE p = "build" -> None
    [] p \in {"property", "coverage"} -> buildjob
    [] p = "report" -> propertyjob \o coveragejob

\* launch_build / launch_property / launch_coverage / launch_report:
\* the request each of them makes through Batch.submit_job.
LaunchRequest(p, flags, dependson) ==
  SubmitRequest(PhaseJobName(p),
                flags \o <<PhaseFlag(p), "--jobname">> \o PhaseJobName(p),
                p \o "_memory",
                dependson)

\* client.submit_job succeeds: a fresh job `jid` enters the queue and the
\* response carries its id and name.
SubmitResponse(req, jid) == [jobId |-> jid, jobName |-> req.jobName]

BackendSubmit(req, jid) ==
  /\ jid \in JobIds \ DOMAIN queue
  /\ queue' = [j \in DOMAIN queue \cup {jid} |->
                 IF j = jid
                 THEN [jobName |-> req.jobName,
                       dependsOn |-> req.dependsOn,
                       status |-> "SUBMITTED"]
                 ELSE queue[j]]
  /\ calls' = Append(calls, [request |-> req, ok |-> TRUE, jobId |-> jid])

\* client.submit_job raises ClientError: Batch.submit_job calls abort, which
\* raises BatchException; nothing catches it in submit_jobs.
BackendReject_Retry(req) ==
  /\ queue' = queue
  /\ calls' = Append(calls, [request |-> req, ok |-> FALSE, jobId |-> None])
  /\ raised' = raised
  /\ pc' = pc

BackendReject_Cancel(req) ==
  /\ queue' = [j \in DOMAIN queue |-> [queue[j] EXCEPT !.status = "FAILED"]]
  /\ calls' = Append(calls, [request |-> req, ok |-> FALSE, jobId |-> None])
               \o [i \in 1..(IF DOMAIN queue = {} THEN 0 ELSE 1) |->
                     [request |-> [op |-> "terminate_job",
                                   jobId |-> CHOOSE j \in DOMAIN queue : TRUE],
                      ok |-> TRUE, jobId |-> None]]
  /\ raised' = <<"BatchException">>
  /\ pc' = "raised"

BackendReject(req) ==
  /\ queue' = queue
  /\ calls' = Append(calls, [request |-> req, ok |-> FALSE, jobId |-> None])
  /\ raised' = <<"BatchException">>
  /\ pc' = "raised"

\* submit_jobs, lines 127-135: the locals before the first phase.
SubmitJobsBegin ==
  /\ pc = "start"
  /\ build_job' = NoJob
  /\ property_job' = NoJob
  /\ coverage_job' = NoJob
  /\ report_job' = NoJob
  /\ buildjob' = <<>>
  /\ propertyjob' = <<>>
  /\ coveragejob' = <<>>
  /\ command' = Command
  /\ pc' = "build"
  /\ UNCHANGED <<miscVars, lockVars, self, results, raised, queue, calls, monVars>>

\* if self.build: build_job = self.launch_build(command); buildjob = [...]
SubmitBuild ==
  /\ pc = "build"
  /\ IF Enabled("build")
     THEN LET req == LaunchRequest("build", command, Dependson("build")) IN
          \/ \E jid \in JobIds :
               /\ BackendSubmit(req, jid)
               /\ build_job' = SubmitResult(SubmitResponse(req, jid))
               /\ buildjob' = <<build_job'.jobid>>
               /\ pc' = "property"
               /\ UNCHANGED raised
          \/ /\ BackendReject(req)
             /\ UNCHANGED <<build_job, buildjob>>
     ELSE /\ pc' = "property"
          /\ UNCHANGED <<build_job, buildjob, raised, queue, calls>>
  /\ command' = IF Enabled("build")
                THEN CommandAfter(command,
                                  LaunchRequest("build", command, Dependson("build")).command)
                ELSE command
  /\ UNCHANGED <<miscVars, lockVars, self, property_job, coverage_job, report_job,
                 propertyjob, coveragejob, results, monVars>>

\* if self.property: property_job = self.launch_property(command, buildjob)
SubmitProperty ==
  /\ pc = "property"
  /\ IF Enabled("property")
     THEN LET req == LaunchRequest("property", command, Dependson("property")) IN
          \/ \E jid \in JobIds :
               /\ BackendSubmit(req, jid)
               /\ property_job' = SubmitResult(SubmitResponse(req, jid))
               /\ propertyjob' = <<property_job'.jobid>>
               /\ pc' = "coverage"
               /\ UNCHANGED raised
          \/ /\ BackendReject(req)
             /\ UNCHANGED <<property_job, propertyjob>>
     ELSE /\ pc' = "coverage"
          /\ UNCHANGED <<property_job, propertyjob, raised, queue, calls>>
  /\ command' = IF Enabled("property")
                THEN CommandAfter(command,
                                  LaunchRequest("property", command, Dependson("property")).command)
                ELSE command
  /\ UNCHANGED <<miscVars, lockVars, self, build_job, coverage_job, report_job,
                 buildjob, coveragejob, results, monVars>>

\* if self.coverage: coverage_job = self.launch_coverage(command, buildjob)
SubmitCoverage ==
  /\ pc = "coverage"
  /\ IF Enabled("coverage")
     THEN LET req == LaunchRequest("coverage", command, Dependson("coverage")) IN
          \/ \E jid \in JobIds :
               /\ BackendSubmit(req, jid)
               /\ coverage_job' = SubmitResult(SubmitResponse(req, jid))
               /\ coveragejob' = <<coverage_job'.jobid>>
               /\ pc' = "report"
               /\ UNCHANGED raised
          \/ /\ BackendReject(req)
             /\ UNCHANGED <<coverage_job, coveragejob>>
     ELSE /\ pc' = "report"
          /\ UNCHANGED <<coverage_job, coveragejob, raised, queue, calls>>
  /\ command' = IF Enabled("coverage")
                THEN CommandAfter(command,
                                  LaunchRequest("coverage", command, Dependson("coverage")).command)
                ELSE command
  /\ UNCHANGED <<miscVars, lockVars, self, build_job, property_job, report_job,
                 buildjob, propertyjob, results, monVars>>

\* if self.report: report_job = self.launch_report(command,
\*                                  dependson=(propertyjob+coveragejob))
SubmitReport ==
  /\ pc = "report"
  /\ IF Enabled("report")
     THEN LET req == LaunchRequest("report", command, Dependson("report")) IN
          \/ \E jid \in JobIds :
               /\ BackendSubmit(req, jid)
               /\ report_job' = SubmitResult(SubmitResponse(req, jid))
               /\ pc' = "return"
               /\ UNCHANGED raised
          \/ /\ BackendReject(req)
             /\ UNCHANGED report_job
     ELSE /\ pc' = "return"
          /\ UNCHANGED <<report_job, raised, queue, calls>>
  /\ command' = IF Enabled("report")
                THEN CommandAfter(command,
                                  LaunchRequest("report", command, Dependson("report")).command)
                ELSE command
  /\ UNCHANGED <<miscVars, lockVars, self, build_job, property_job, coverage_job,
                 buildjob, propertyjob, coveragejob, results, monVars>>

\* results = {...}; return results
SubmitJobsReturn ==
  /\ pc = "return"
  /\ results' = [jobname |-> self.jobname,
                 build |-> build_job,
                 property |-> property_job,
                 coverage |-> coverage_job,
                 report |-> report_job]
  /\ pc' = "done"
  /\ UNCHANGED <<miscVars, lockVars, command, self, build_job, property_job, coverage_job, report_job,
                 buildjob, propertyjob, coveragejob, raised, queue, calls, monVars>>

\* The backend moves a job forward: to the next status of the order up to
\* RUNNING, from RUNNING to SUCCEEDED, and from any live status to FAILED.
StatusIndex(s) == CHOOSE i \in 1..Len(StatusOrder) : StatusOrder[i] = s

\* A job waits in PENDING until the jobs it depends on have succeeded.
DepsSucceeded(j) ==
  \A i \in DOMAIN queue[j].dependsOn :
    LET d == queue[j].dependsOn[i].jobId IN
    d \in DOMAIN queue /\ queue[d].status = "SUCCEEDED"

NextStatuses(j) ==
  LET s == queue[j].status IN
  IF s \in Terminal THEN {}
  ELSE {"FAILED"} \cup
       (IF s = "PENDING" /\ ~DepsSucceeded(j) THEN {}
        ELSE {StatusOrder[StatusIndex(s) + 1]})

JobAdvance ==
  /\ \E j \in DOMAIN queue : \E s \in NextStatuses(j) :
       queue' = [queue EXCEPT ![j].status = s]
  /\ UNCHANGED <<miscVars, lockVars, orchVars, calls, monVars>>

\* The monitor is not running.
MonitorOff ==
  /\ mpc = "off"
  /\ args = [jobname |-> None, jobid |-> None]
  /\ jobname = None
  /\ jobid = None
  /\ status = <<>>
  /\ jobs = <<>>
  /\ query = 1
  /\ poll_results = <<>>
  /\ listed = <<>>
  /\ output = <<>>
  /\ notified = FALSE
  /\ settled = FALSE

\* No Batch instance is being constructed.
BatchOff ==
  /\ backend = [jobDefinitions |-> <<>>, jobQueues |-> <<>>, fault |-> "none"]
  /\ batch = [pc |-> "off", jobname |-> None, queuename |-> None,
              jobqueue |-> None, jobdefinition |-> None]

\* The container script is not running.
DockerOff ==
  docker = [pc |-> "off", args |-> <<>>, config |-> <<>>, opts |-> <<>>, ran |-> <<>>]

\* generate_cbmc_jobs is not running.
LauncherOff ==
  launcher = [pc |-> "off", task |-> 1, submitted |-> <<>>, posted |-> <<>>,
              pending_exception |-> FALSE]

\* phase_merge is not running.
OptionsOff == options = [pc |-> "off"]

\* No task is logging.
ClogOff == clog = [tasks |-> <<>>, uuids |-> 0]

\* No run is started.
RunsOff == runs = [clock |-> 0, elapsed |-> 0, started |-> <<>>]

\* get_existing_bucket_policy_accounts is not running.
PolicyOff == policy = [pc |-> "off"]

\* The trigger lambda is not running.
TriggerOff ==
  trigger = [pc |-> "off", token |-> FALSE, valid |-> FALSE, yamls |-> 0, outputs |-> 0,
             params |-> FALSE, jobs |-> 0, recorded |-> FALSE,
             raised |-> FALSE, reports |-> <<>>]

\* The status check lambda is not running.
CheckerOff ==
  checker = [pc |-> "off", jobs |-> <<>>, output |-> <<>>, all_succeeded |-> TRUE,
             outcomes |-> <<>>]

\* The GitHub worker lambda is not running.
WorkerOff ==
  worker = [pc |-> "off", inbox |-> {}, received |-> <<>>, g |-> <<>>, polls |-> 0,
            outcome |-> <<>>, attempts |-> <<>>]

\* The parts modelled further below are not running.
MiscOff ==
  /\ BatchOff
  /\ DockerOff
  /\ LauncherOff
  /\ OptionsOff
  /\ ClogOff
  /\ RunsOff
  /\ PolicyOff
  /\ TriggerOff
  /\ CheckerOff
  /\ WorkerOff

\* No Lock method is called.
LockOff ==
  /\ store = {}
  /\ lop = [name |-> "none", lock |-> "", interval |-> 0, bound |-> None,
            after |-> "none"]
  /\ lpc = "off"
  /\ lret = None
  /\ response = None
  /\ seconds = 0
  /\ attempts = 0
  /\ polls = 0
  /\ was_set = FALSE
  /\ quiet = TRUE

\* CBMC.__init__: the enabled flags come from opts; nothing is submitted yet.
InitSubmit ==
  /\ self \in [build : BOOLEAN, property : BOOLEAN, coverage : BOOLEAN,
               report : BOOLEAN, jobname : {RunName}]
  /\ pc = "start"
  /\ build_job = NoJob
  /\ property_job = NoJob
  /\ coverage_job = NoJob
  /\ report_job = NoJob
  /\ buildjob = <<>>
  /\ propertyjob = <<>>
  /\ coveragejob = <<>>
  /\ command = <<>>
  /\ results = None
  /\ raised = None
  /\ queue = <<>>
  /\ calls = <<>>
  /\ MonitorOff
  /\ LockOff
  /\ MiscOff

NextSubmit ==
  \/ SubmitJobsBegin
  \/ SubmitBuild
  \/ SubmitProperty
  \/ SubmitCoverage
  \/ SubmitReport
  \/ SubmitJobsReturn
  \/ JobAdvance

SpecSubmit == InitSubmit /\ [][NextSubmit]_vars

\* --------------------------------------- bin/batch.py: Batch.job_status

\* re.search(pattern, string) for a literal pattern.
Search(pattern, string) ==
  \E i \in 0..(Len(string) - Len(pattern)) :
    SubSeq(string, i + 1, i + Len(pattern)) = pattern

\* jobid and re.search(jobid, job_id) or jobname and re.search(jobname, job_name)
Matches(id_filter, name_filter, job_id, job_name) ==
  \/ Truthy(id_filter) /\ Search(id_filter, job_id)
  \/ Truthy(name_filter) /\ Search(name_filter, job_name)

\* All orders in which the backend can list the jobs of a set.
Orderings(S) ==
  {seq \in [1..Cardinality(S) -> S] : \A i, n \in DOMAIN seq : seq[i] = seq[n] => i = n}

\* The jobs of a jobSummaryList that match, as job_status appends them.
RECURSIVE Matching_NoFailed(_, _, _, _)
Matching_NoFailed(summary, id_filter, name_filter, st) ==
  IF summary = <<>> \/ st = "FAILED" THEN <<>>
  ELSE LET job_id == Head(summary)
           job_name == queue[job_id].jobName
           rest == Matching_NoFailed(Tail(summary), id_filter, name_filter, st)
       IN IF Matches(id_filter, name_filter, job_id, job_name)
          THEN <<[jobId |-> job_id, jobName |-> job_name, status |-> st]>> \o rest
          ELSE rest

RECURSIVE Matching(_, _, _, _)
Matching(summary, id_filter, name_filter, st) ==
  IF summary = <<>> THEN <<>>
  ELSE LET job_id == Head(summary)
           job_name == queue[job_id].jobName
           rest == Matching(Tail(summary), id_filter, name_filter, st)
       IN IF Matches(id_filter, name_filter, job_id, job_name)
          THEN <<[jobId |-> job_id, jobName |-> job_name, status |-> st]>> \o rest
          ELSE rest

\* One pass of job_status's loop: client.list_jobs for the next status value;
\* after the last status the list is returned to monitor_status.
ListJobs ==
  /\ mpc = "poll"
  /\ LET st == StatusOrder[query] IN
     \E summary \in Orderings({j \in DOMAIN queue : queue[j].status = st}) :
       LET found == poll_results \o Matching(summary, jobid, jobname, st) IN
       /\ listed' = Append(listed, st)
       /\ IF query = Len(StatusOrder)
          THEN /\ jobs' = found           \* return results
               /\ poll_results' = <<>>
               /\ mpc' = "process"
               /\ query' = query
          ELSE /\ poll_results' = found
               /\ query' = query + 1
               /\ UNCHANGED <<jobs, mpc>>
  /\ UNCHANGED <<miscVars, lockVars, orchVars, queue, calls, args, jobname, jobid, status, output,
                 notified, settled>>

\* client.list_jobs raises ClientError: abort raises BatchException.
ListJobsFail ==
  /\ mpc = "poll"
  /\ listed' = Append(listed, StatusOrder[query])
  /\ mpc' = "raised"
  /\ raised' = <<"BatchException">>
  /\ UNCHANGED <<miscVars, lockVars, command, self, pc, build_job, property_job, coverage_job, report_job,
                 buildjob, propertyjob, coveragejob, results, queue, calls,
                 args, jobname, jobid, status, jobs, query, poll_results,
                 output, notified, settled>>

\* --------------------------------------------------------- bin/status.py

\* status.get(jobid, None) on the ordered dict.
StatusGet(dict, id) ==
  IF \E i \in DOMAIN dict : dict[i].jobId = id
  THEN dict[CHOOSE i \in DOMAIN dict : dict[i].jobId = id]
  ELSE [jobId |-> None, jobName |-> None, status |-> "None"]

\* status[jobid] = job: a known key keeps its place, a new key goes last.
StatusPut_OnlyLatest(dict, job) == <<job>>

StatusPut(dict, job) ==
  IF \E i \in DOMAIN dict : dict[i].jobId = job.jobId
  THEN [i \in DOMAIN dict |-> IF dict[i].jobId = job.jobId THEN job ELSE dict[i]]
  ELSE Append(dict, job)

\* if current is None or jobstatus != current['status']
Changed_Always(current, job) == TRUE

Changed_NewOnly(current, job) == current.jobId = None

Changed(current, job) == current.jobId = None \/ job.status # current.status

\* The for loop of monitor_status over the polled jobs, from the state
\* [status, change, jobid] before the i-th job.
RECURSIVE Record(_, _)
Record(acc, i) ==
  IF i > Len(jobs) THEN acc
  ELSE LET job == jobs[i]
           current == StatusGet(acc.status, job.jobId)
       IN IF Changed(current, job)
          THEN Record([status |-> StatusPut(acc.status, job),
                       change |-> TRUE,
                       jobid |-> job.jobId], i + 1)
          ELSE Record([acc EXCEPT !.jobid = job.jobId], i + 1)

\* display(job_list(status)): one line "name: status" per tracked job.
Display(dict) == [i \in DOMAIN dict |-> [jobName |-> dict[i].jobName,
                                         status |-> dict[i].status]]

\* The output after printing a table: per job name, the lines so far that
\* show a final status.
Printed(out, table) ==
  LET names == DOMAIN out \cup {table[i].jobName : i \in DOMAIN table}
      old(n) == IF n \in DOMAIN out THEN out[n] ELSE 0
      new(n) == Cardinality({i \in DOMAIN table :
                               table[i].jobName = n /\ table[i].status \in Terminal})
  IN [n \in names |-> old(n) + new(n)]

\* stop = True; for jid in status: stop = stop and status[jid]['status'] in [...]
Stop_Polled(dict) ==
  \A i \in DOMAIN jobs : jobs[i].status \in {"SUCCEEDED", "FAILED"}

Stop_NonEmpty(dict) ==
  dict # <<>> /\ \A i \in DOMAIN dict : dict[i].status \in {"SUCCEEDED", "FAILED"}

Stop(dict) == \A i \in DOMAIN dict : dict[i].status \in {"SUCCEEDED", "FAILED"}

\* Every job the caller's filter matches has reached a final status.
AllFinal ==
  \A j \in DOMAIN queue :
    Matches(args.jobid, args.jobname, j, queue[j].jobName)
      => queue[j].status \in Terminal

\* monitor_status is called: status = {}, and the first poll begins.
MonitorBegin ==
  /\ mpc = "start"
  /\ status' = <<>>
  /\ mpc' = "poll"
  /\ query' = 1
  /\ poll_results' = <<>>
  /\ listed' = <<>>
  /\ settled' = AllFinal
  /\ UNCHANGED <<miscVars, lockVars, orchVars, queue, calls, args, jobname, jobid, jobs, output, notified>>

\* Lines 59-79: record the polled jobs, print the table if something
\* changed, and return if every tracked job is final.
MonitorRecord ==
  /\ mpc = "process"
  /\ LET acc == Record([status |-> status, change |-> FALSE, jobid |-> jobid], 1) IN
     /\ status' = acc.status
     /\ jobid' = acc.jobid
     /\ output' = IF acc.change THEN Printed(output, Display(acc.status)) ELSE output
     /\ notified' = acc.change
     /\ mpc' = IF Stop(acc.status) THEN "returned" ELSE "sleep"
  /\ jobs' = <<>>            \* not read again before the next poll assigns it
  /\ UNCHANGED <<miscVars, lockVars, orchVars, queue, calls, args, jobname, query,
                 poll_results, listed, settled>>

\* time.sleep(5), then the next poll begins.
MonitorSleep ==
  /\ mpc = "sleep"
  /\ mpc' = "poll"
  /\ query' = 1
  /\ poll_results' = <<>>
  /\ listed' = <<>>
  /\ settled' = AllFinal
  /\ UNCHANGED <<miscVars, lockVars, orchVars, queue, calls, args, jobname, jobid, status, jobs, output, notified>>

\* The filters a caller passes: none, a job name or a job id, matching one
\* job or several.
Filters ==
  {[jobname |-> None, jobid |-> None],
   [jobname |-> RunName, jobid |-> None],
   [jobname |-> RunName \o <<"-", Phases[1]>>, jobid |-> None],
   [jobname |-> None, jobid |-> <<"j">>],
   [jobname |-> None, jobid |-> <<"j", Digits[1]>>]}

\* The queue holds the jobs of one run: the first was just submitted, the
\* others are already running.
StartStatus(i) == IF i = 1 THEN "SUBMITTED" ELSE "RUNNING"

QueuedJob(i) ==
  [jobName |-> RunName \o <<"-", Phases[((i - 1) % Len(Phases)) + 1]>>,
   dependsOn |-> <<>>,
   status |-> StartStatus(i)]

InitMonitor ==
  /\ self = [build |-> TRUE, property |-> TRUE, coverage |-> TRUE,
             report |-> TRUE, jobname |-> RunName]
  /\ pc = "off"
  /\ build_job = NoJob
  /\ property_job = NoJob
  /\ coverage_job = NoJob
  /\ report_job = NoJob
  /\ buildjob = <<>>
  /\ propertyjob = <<>>
  /\ coveragejob = <<>>
  /\ command = <<>>
  /\ results = None
  /\ raised = None
  /\ calls = <<>>
  /\ queue = [j \in {<<"j", Digits[i]>> : i \in 1..NumQueued} |->
                QueuedJob(CHOOSE i \in 1..NumQueued : j = <<"j", Digits[i]>>)]
  /\ mpc = "start"
  /\ args \in Filters
  /\ jobname = args.jobname
  /\ jobid = args.jobid
  /\ status = <<>>
  /\ jobs = <<>>
  /\ query = 1
  /\ poll_results = <<>>
  /\ listed = <<>>
  /\ output = <<>>
  /\ notified = FALSE
  /\ settled = FALSE
  /\ LockOff
  /\ MiscOff

NextMonitor ==
  \/ MonitorBegin
  \/ ListJobs
  \/ ListJobsFail
  \/ MonitorRecord
  \/ MonitorSleep
  \/ JobAdvance

SpecMonitor == InitMonitor /\ [][NextMonitor]_vars

\* ------------------------------------------- properties of submit_jobs

\* The phase a logged submit request belongs to (by its job name).
CallsOf(p) ==
  {i \in DOMAIN calls : calls[i].request.op = "submit_job"
                        /\ calls[i].request.jobName = PhaseJobName(p)}

\* The dependsOn entry for phase p as the backend saw it: the id it returned
\* for p's accepted submit request, or nothing when p was not submitted.
SubmittedEdge(p) ==
  IF \E i \in CallsOf(p) : calls[i].ok
  THEN <<[jobId |-> calls[CHOOSE i \in CallsOf(p) : calls[i].ok].jobId]>>
  ELSE <<>>

NoDuplicates(seq) == \A i, k \in DOMAIN seq : seq[i] = seq[k] => i = k

NumEnabled == Cardinality({p \in PhaseSet : self[p]})

PhaseIndex(p) == CHOOSE i \in 1..Len(Phases) : Phases[i] = p

PhaseOfCall(i) == CHOOSE p \in PhaseSet : i \in CallsOf(p)

\* C1: the dependsOn list of the report submission is exactly the job ids of
\* whichever of property and coverage were submitted in this call, property
\* first, coverage second, without duplicates, and empty when neither was.
C1_ReportDependsOn ==
  \A i \in CallsOf("report") :
    /\ calls[i].request.dependsOn = SubmittedEdge("property") \o SubmittedEdge("coverage")
    /\ Len(calls[i].request.dependsOn) =
         Cardinality({p \in {"property", "coverage"} : self[p]})
    /\ NoDuplicates(calls[i].request.dependsOn)

C1_Witness ==
  \E i \in CallsOf("report") : calls[i].ok /\ Len(calls[i].request.dependsOn) = 2

\* C2: the property and the coverage submission each carry [buildJobId] when
\* build was submitted in this call and the empty list when build is
\* disabled; neither depends on the other.
C2_PropertyCoverageDependsOn ==
  \A p \in {"property", "coverage"} : \A i \in CallsOf(p) :
    /\ calls[i].request.dependsOn = SubmittedEdge("build")
    /\ Len(calls[i].request.dependsOn) = (IF self.build THEN 1 ELSE 0)
    /\ \A k \in DOMAIN calls[i].request.dependsOn :
         /\ SubmittedEdge("property") # <<calls[i].request.dependsOn[k]>>
         /\ SubmittedEdge("coverage") # <<calls[i].request.dependsOn[k]>>

C2_Witness ==
  /\ \E i \in CallsOf("coverage") : calls[i].ok /\ Len(calls[i].request.dependsOn) = 1
  /\ \E i \in CallsOf("property") : calls[i].ok

\* C3: one submit request per enabled phase, none for a disabled phase, in
\* the order build, property, coverage, report; without a failure the number
\* of submitted jobs is the number of enabled phases.
C3_OneSubmitPerEnabledPhase ==
  /\ \A i \in DOMAIN calls :
       /\ calls[i].request.op = "submit_job"
       /\ \E p \in PhaseSet : i \in CallsOf(p) /\ self[p]
  /\ \A i, k \in DOMAIN calls :
       i < k => PhaseIndex(PhaseOfCall(i)) < PhaseIndex(PhaseOfCall(k))
  /\ pc \in {"return", "done"} =>
       /\ Len(calls) = NumEnabled
       /\ Cardinality(DOMAIN queue) = NumEnabled
       /\ \A p \in PhaseSet : self[p] => \E i \in CallsOf(p) : calls[i].ok

\* Scenario A: build, property and report enabled, coverage disabled.
C3_Witness ==
  /\ pc = "done"
  /\ self.build /\ self.property /\ ~self.coverage /\ self.report
  /\ Len(calls) = 3

\* C4: a failed submit request raises the error to the caller; the request is
\* not retried and no later phase is requested.
C4_FailureAborts ==
  \A i \in DOMAIN calls :
    ~calls[i].ok =>
      /\ i = Len(calls)
      /\ pc = "raised"
      /\ raised = <<"BatchException">>
      /\ results = None
      /\ \A p \in PhaseSet :
           PhaseIndex(p) > PhaseIndex(PhaseOfCall(i)) => CallsOf(p) = {}

C4_Witness ==
  /\ pc = "raised"
  /\ \E i \in CallsOf("property") : ~calls[i].ok
  /\ self.coverage /\ self.report

\* The job id submit_jobs holds for each phase.
HeldJob(p) ==
  CASE p = "build" -> build_job
    [] p = "property" -> property_job
    [] p = "coverage" -> coverage_job
    [] p = "report" -> report_job

\* C5: once a phase is submitted no later step issues a request about its
\* job: every new request is a submit of a job not yet in the queue, queued
\* jobs keep their name and dependsOn list, and the id held for a phase stays.
C5_SubmittedJobsUntouched ==
  [][/\ \A j \in DOMAIN queue :
          /\ j \in DOMAIN queue'
          /\ queue'[j].dependsOn = queue[j].dependsOn
          /\ queue'[j].jobName = queue[j].jobName
     /\ \A i \in DOMAIN calls' :
          i > Len(calls) =>
            /\ calls'[i].request.op = "submit_job"
            /\ calls'[i].jobId \notin DOMAIN queue
     /\ SubSeq(calls', 1, Len(calls)) = calls
     /\ \A p \in PhaseSet :
          HeldJob(p).jobid # None => HeldJob(p)' = HeldJob(p)]_vars

\* Two phases are queued and a later phase's submission has failed.
C5_Witness ==
  /\ pc = "raised"
  /\ Cardinality(DOMAIN queue) >= 2
  /\ \E j \in DOMAIN queue : queue[j].status = "RUNNING"

\* C6: the returned aggregate carries the run's job name and, per phase, the
\* {jobid, jobname} the backend returned if the phase was submitted and
\* {None, None} if not; a disabled phase never has a job id and no dependsOn
\* entry is an empty slot.
C6_AggregateResult ==
  /\ pc = "done" =>
       /\ results.jobname = self.jobname
       /\ \A p \in PhaseSet :
            results[p] =
              IF self[p]
              THEN LET i == CHOOSE i \in CallsOf(p) : calls[i].ok IN
                   [jobid |-> calls[i].jobId, jobname |-> calls[i].request.jobName]
              ELSE NoJob
  /\ \A p \in PhaseSet : ~self[p] => HeldJob(p) = NoJob
  /\ \A i \in DOMAIN calls : \A k \in DOMAIN calls[i].request.dependsOn :
       /\ calls[i].request.dependsOn[k].jobId # None
       /\ \E p \in PhaseSet :
            self[p] /\ SubmittedEdge(p) = <<calls[i].request.dependsOn[k]>>

C6_Witness ==
  /\ pc = "done"
  /\ self.build /\ ~self.property /\ self.coverage /\ self.report
  /\ results.property = NoJob
  /\ results.report.jobid # None

\* ---------------------------------------- properties of monitor_status

Live == {"SUBMITTED", "PENDING", "RUNNABLE", "STARTING", "RUNNING"}

\* C7: monitor_status returns only when the recorded status of every tracked
\* job is SUCCEEDED or FAILED, never while one is still live.
C7_ReturnsOnlyWhenAllFinal ==
  mpc = "returned" =>
    \A i \in DOMAIN status :
      status[i].status \in {"SUCCEEDED", "FAILED"} /\ status[i].status \notin Live

C7_Witness ==
  /\ mpc = "returned"
  /\ \E i, n \in DOMAIN status :
       status[i].status = "SUCCEEDED" /\ status[n].status = "FAILED"

\* C8: a poll cycle that begins when every job matching the caller's filter
\* is final ends with monitor_status returning (it does not go on to sleep),
\* for name filters and id filters, matching one job or several.
C8_ReturnsOnceAllFinal == mpc = "sleep" => ~settled

\* C9: a call of job_status has issued one list query per status value, in
\* the order of StatusOrder, and its list holds each job id at most once.
C9_PollOnceDeduplicated ==
  /\ mpc \in {"poll", "process"} => listed = SubSeq(StatusOrder, 1, Len(listed))
  /\ mpc = "poll" => Len(listed) = query - 1
  /\ mpc = "process" =>
       /\ listed = StatusOrder
       /\ \A i, n \in DOMAIN jobs : jobs[i].jobId = jobs[n].jobId => i = n

\* Number of printed lines that show job name n with a final status.
FinalLines(out, n) == IF n \in DOMAIN out THEN out[n] ELSE 0

\* C10 as stated: the final status of each job is reported exactly once.
C10_FinalReportedOnce ==
  /\ \A n \in DOMAIN output : output[n] <= 1
  /\ mpc = "returned" =>
       \A i \in DOMAIN status : FinalLines(output, status[i].jobName) = 1

\* C10 amended: a job's recorded status becomes final in at most one cycle
\* and then stays; that cycle's notification and every later notification
\* print it, since each notification prints the whole table; at return every
\* tracked job's final status has been printed at least once.
C10_FinalRecordedOncePrintedPerNotification ==
  [][/\ \A i \in DOMAIN status :
          status[i].status \in Terminal =>
            i \in DOMAIN status' /\ status'[i] = status[i]
     /\ \A i \in DOMAIN status' :
          status'[i].status \in Terminal =>
            FinalLines(output', status'[i].jobName) =
              FinalLines(output, status'[i].jobName)
                + (IF status' # status THEN 1 ELSE 0)
     /\ mpc' = "returned" =>
          \A i \in DOMAIN status' : FinalLines(output', status'[i].jobName) >= 1]_vars

\* A job's final status has been printed in two notifications.
C10_Witness ==
  /\ mpc = "returned"
  /\ \E i \in DOMAIN status : FinalLines(output, status[i].jobName) = 2

\* The polled job differs from what the dict held when the cycle began: it
\* is new, or its status is not the recorded one.
Differs(job) ==
  \/ \A i \in DOMAIN status : status[i].jobId # job.jobId
  \/ \E i \in DOMAIN status :
       status[i].jobId = job.jobId /\ status[i].status # job.status

\* C11: a poll cycle prints a notification only if one of its polled jobs is
\* newly seen or has a status different from its recorded one (and then it
\* does); a cycle in which every polled job has its recorded status prints
\* nothing and records nothing.
C11_NotificationOnlyOnChange ==
  [][IF mpc = "process" /\ mpc' # "process"
     THEN /\ notified' <=> \E i \in DOMAIN jobs : Differs(jobs[i])
          /\ ~notified' => output' = output /\ status' = status
     ELSE output' = output /\ notified' = notified]_vars

\* A cycle whose polled jobs all had their recorded status printed nothing.
C11_Witness ==
  /\ mpc = "sleep"
  /\ ~notified
  /\ Len(status) >= 2

\* ------------------------------------------------------------ bin/lock.py

\* Longest time bound, in characters, drawn from BoundAlphabet.
MaxLen == 3

\* Largest poll interval, in seconds, the bound is divided by.
MaxInterval == 6

\* Number of polls of one wait that are followed.
MaxPolls == 8

\* sys.maxsize (2^63 - 1 in CPython); the value here is its stand-in within
\* the range of the integers of the model.
SysMaxsize == 1073741823

DigitChars == {"0", "1", "2", "3", "4", "5", "6", "7", "8", "9"}

\* int() of one character matched by [0-9].
DigitVal(c) ==
  CASE c = "0" -> 0 [] c = "1" -> 1 [] c = "2" -> 2 [] c = "3" -> 3
    [] c = "4" -> 4 [] c = "5" -> 5 [] c = "6" -> 6 [] c = "7" -> 7
    [] c = "8" -> 8 [] c = "9" -> 9

\* int() of a string matched by [0-9]+.
RECURSIVE ToInt(_)
ToInt(ds) ==
  IF ds = <<>> THEN 0
  ELSE 10 * ToInt(SubSeq(ds, 1, Len(ds) - 1)) + DigitVal(ds[Len(ds)])

\* re.sub(r'\s+', "", bound)
RECURSIVE StripSpace(_)
StripSpace(str) ==
  IF str = <<>> THEN <<>>
  ELSE IF Head(str) = " " THEN StripSpace(Tail(str))
  ELSE <<Head(str)>> \o StripSpace(Tail(str))

\* The end of the longest run of [0-9] that starts at position p of str
\* (p - 1 if there is none).
RECURSIVE DigitsEnd(_, _)
DigitsEnd(str, p) ==
  IF p <= Len(str) /\ str[p] \in DigitChars THEN DigitsEnd(str, p + 1) ELSE p - 1

\* One optional group (([0-9]+)<unit>)? of the pattern, tried at position p:
\* the number it captured (`match.group(n) or 0` when the group takes no
\* part in the match) and the position after it.
Group(str, p, unit) ==
  LET e == DigitsEnd(str, p) IN
  IF e >= p /\ e + 1 <= Len(str) /\ str[e + 1] = unit
  THEN [num |-> ToInt(SubSeq(str, p, e)), next |-> e + 2]
  ELSE [num |-> 0, next |-> p]

\* re.match('^(([0-9]+)d)?(([0-9]+)h)?(([0-9]+)m)?(([0-9]+)s)?$', bnd): the
\* the four captured numbers, or ok |-> FALSE if the pattern does not match.
BoundMatch(bnd) ==
  LET d == Group(bnd, 1, "d")
      h == Group(bnd, d.next, "h")
      m == Group(bnd, h.next, "m")
      s == Group(bnd, m.next, "s")
  IN IF s.next = Len(bnd) + 1
     THEN [ok |-> TRUE,
           day |-> d.num, hour |-> h.num, minute |-> m.num, second |-> s.num]
     ELSE [ok |-> FALSE, day |-> 0, hour |-> 0, minute |-> 0, second |-> 0]

\* parse_bound: [ok |-> TRUE, value |-> seconds], or ok |-> FALSE where it
\* raises LockException("Can't parse time bound: ...").
ParseBound_MinutesAsHours(bound) ==
  IF bound = None THEN [ok |-> TRUE, value |-> SysMaxsize]
  ELSE LET match == BoundMatch(StripSpace(bound)) IN
       IF ~match.ok THEN [ok |-> FALSE, value |-> 0]
       ELSE [ok |-> TRUE,
             value |-> ((match.day * 24 + match.hour) * 60 + match.minute) * 24
                       + match.second]

ParseBound_Prefix(bound) ==
  IF bound = None THEN [ok |-> TRUE, value |-> SysMaxsize]
  ELSE LET bnd == StripSpace(bound)
           d == Group(bnd, 1, "d")
           h == Group(bnd, d.next, "h")
           m == Group(bnd, h.next, "m")
           s == Group(bnd, m.next, "s")
       IN [ok |-> TRUE,
           value |-> ((d.num * 24 + h.num) * 60 + m.num) * 60 + s.num]

ParseBound(bound) ==
  IF bound = None THEN [ok |-> TRUE, value |-> SysMaxsize]
  ELSE LET match == BoundMatch(StripSpace(bound)) IN
       IF ~match.ok THEN [ok |-> FALSE, value |-> 0]
       ELSE [ok |-> TRUE,
             value |-> ((match.day * 24 + match.hour) * 60 + match.minute) * 60
                       + match.second]

\* attempts = (parse_bound(bound) // interval) + 1
Attempts_RoundedUp(value, interval) == ((value + interval - 1) \div interval) + 1

Attempts_NoExtra(value, interval) == value \div interval

Attempts(value, interval) == (value \div interval) + 1

\* LOCKS
LOCKS == <<"build.txt", "property.txt", "coverage.txt", "report.txt">>

LockSet == {LOCKS[i] : i \in 1..Len(LOCKS)}

\* The lock names callers pass: the four locks and some other strings.
LockNames == LockSet \cup {"", "Build.txt", "lock.txt"}

\* The lock names callers wait for.
WaitNames == {"build.txt", "report.txt", "Build.txt"}

\* self.bucket and self.prefix of the Lock instance.
Bucket == "bucket"

Prefix == "run"

\* Lock.lock_path
LockPath(lock) ==
  IF Prefix = "" THEN <<Bucket, "/", lock>> ELSE <<Bucket, "/", Prefix, "/", lock>>

\* s3.is_object / s3.bucket_name / s3.key_name on the paths lock_path builds.
IsObject(path) == Len(path) >= 3 /\ path[Len(path)] # ""

BucketName(path) == path[1]

KeyName(path) == SubSeq(path, 3, Len(path))

\* `lock not in self.locks` of validate_lock.
Invalid_CaseInsensitive(lock) == lock \notin LockSet \cup {"Build.txt"}

Invalid(lock) == lock \notin LockSet

\* ------------------------------------------------------------- bin/s3.py

\* Error codes of the ClientError a request can answer with; "404" is the
\* answer of head_object for a missing key.
Faults == {<<"403">>, <<"500">>}

Ok == <<"200">>

NotFound == <<"404">>

\* The answers of client.head_object for an object key.
HeadObject(key) == (IF key \in store THEN {Ok} ELSE {NotFound}) \cup Faults

\* The answers of client.head_bucket for the lock bucket, which exists.
HeadBucket == {Ok} \cup Faults

\* The answers of client.put_object.
PutObject == {Ok} \cup Faults

\* The answers of client.delete_object: S3 answers a delete of a missing
\* key as it answers the delete of an existing one.
DeleteObject_NoSuchKey(key) == (IF key \in store THEN {Ok} ELSE {NotFound}) \cup Faults

DeleteObject(key) == {Ok} \cup Faults

\* s3.abort: S3Exception, with the error code in its message if the data
\* has one.
S3Abort(code) == IF code = None THEN <<"S3Exception">> ELSE <<"S3Exception">> \o code

LockException == <<"LockException">>

\* s3.object_exists for the answer `resp` of head_object: the value it
\* returns, or the exception it raises.
ObjectExists_Negated(resp) ==
  IF resp = Ok THEN [ok |-> TRUE, value |-> FALSE, exc |-> None]
  ELSE IF resp = NotFound \/ resp = <<"403">>
       THEN [ok |-> TRUE, value |-> TRUE, exc |-> None]
  ELSE [ok |-> FALSE, value |-> FALSE, exc |-> S3Abort(resp)]

ObjectExists(resp) ==
  IF resp = Ok THEN [ok |-> TRUE, value |-> TRUE, exc |-> None]
  ELSE IF resp = NotFound \/ resp = <<"403">>
       THEN [ok |-> TRUE, value |-> FALSE, exc |-> None]
  ELSE [ok |-> FALSE, value |-> FALSE, exc |-> S3Abort(resp)]

\* s3.bucket_exists for the answer of head_bucket.
BucketExists(resp) ==
  IF resp = Ok THEN [ok |-> TRUE, value |-> TRUE, exc |-> None]
  ELSE IF resp = NotFound \/ resp = <<"403">>
       THEN [ok |-> TRUE, value |-> FALSE, exc |-> None]
  ELSE [ok |-> FALSE, value |-> FALSE, exc |-> S3Abort(resp)]

True == <<"True">>

False == <<"False">>

Bool(b) == IF b THEN True ELSE False

\* The responses of botocore's waiters: object_exists succeeds on 200 and
\* retries on 404; object_not_exists succeeds on 404 and retries on 200;
\* any other error ends the wait with WaiterError.
Waiter_FirstAnswer(condition, resp) ==
  IF resp \in {Ok, NotFound} THEN "success" ELSE "failure"

Waiter(condition, resp) ==
  IF resp \in Faults THEN "failure"
  ELSE IF (condition = "object_exists") = (resp = Ok) THEN "success"
  ELSE "retry"

WaiterError(reason) == <<"WaiterError">> \o reason

MaxAttemptsExceeded == <<"Max attempts exceeded">>

\* The variables no Lock method touches.
lockRest == <<miscVars, self, pc, command, build_job, property_job, coverage_job, report_job,
              buildjob, propertyjob, coveragejob, results, queue, calls, monVars>>

\* A Lock method is called: the method and its arguments are noted, with
\* whether the lock's object exists at that moment, and with the method
\* that returned just before on the same lock, if no other process has
\* written the bucket since.
Called(name, lock, interval, bound) ==
  /\ lpc \in {"idle", "returned", "raised"}
  /\ lop' = [name |-> name, lock |-> lock, interval |-> interval, bound |-> bound,
             after |-> IF lpc = "returned" /\ quiet /\ lop.lock = lock
                       THEN lop.name ELSE "none"]
  /\ was_set' = (KeyName(LockPath(lock)) \in store)
  /\ quiet' = TRUE

\* The method raises `exc`.
Raise(exc) ==
  /\ raised' = exc
  /\ lret' = None
  /\ lpc' = "raised"

\* The method returns `value`.
Return(value) ==
  /\ raised' = None
  /\ lret' = value
  /\ lpc' = "returned"

\* Lock.set: validate_lock, then s3.create_object (client.put_object).
Set(lock) ==
  /\ Called("set", lock, 0, None)
  /\ IF Invalid(lock)
     THEN /\ Raise(LockException)
          /\ UNCHANGED <<store, response>>
     ELSE \E resp \in PutObject :
            /\ response' = resp
            /\ IF resp = Ok
               THEN /\ store' = store \cup {KeyName(LockPath(lock))}
                    /\ Return(None)
               ELSE /\ Raise(S3Abort(resp))
                    /\ UNCHANGED store
  /\ UNCHANGED <<seconds, attempts, polls, lockRest>>

\* Lock.unset: validate_lock, then s3.delete_object: bucket_exists
\* (client.head_bucket), then client.delete_object, which answers 204 for a
\* missing key as for an existing one.  The handler of its ClientError
\* names the local `key`, which the non-recursive branch never binds.
Unset(lock) ==
  /\ Called("unset", lock, 0, None)
  /\ IF Invalid(lock)
     THEN /\ Raise(LockException)
          /\ UNCHANGED <<store, response>>
     ELSE \E head \in HeadBucket :
            LET exists == BucketExists(head) IN
            IF ~exists.ok
            THEN /\ response' = head
                 /\ Raise(exists.exc)
                 /\ UNCHANGED store
            ELSE IF ~exists.value
            THEN /\ response' = head
                 /\ Raise(S3Abort(None))
                 /\ UNCHANGED store
            ELSE \E resp \in DeleteObject(KeyName(LockPath(lock))) :
                   /\ response' = resp
                   /\ IF resp = Ok
                      THEN /\ store' = store \ {KeyName(LockPath(lock))}
                           /\ Return(None)
                      ELSE /\ Raise(<<"UnboundLocalError">>)
                           /\ UNCHANGED store
  /\ UNCHANGED <<seconds, attempts, polls, lockRest>>

\* Lock.is_set: validate_lock, then s3.object_exists.
IsSet(lock) ==
  /\ Called("is_set", lock, 0, None)
  /\ IF Invalid(lock)
     THEN /\ Raise(LockException)
          /\ UNCHANGED response
     ELSE \E resp \in HeadObject(KeyName(LockPath(lock))) :
            LET exists == ObjectExists(resp) IN
            /\ response' = resp
            /\ IF exists.ok THEN Return(Bool(exists.value)) ELSE Raise(exists.exc)
  /\ UNCHANGED <<store, seconds, attempts, polls, lockRest>>

\* Lock.is_unset: validate_lock, then not s3.object_exists.
IsUnset(lock) ==
  /\ Called("is_unset", lock, 0, None)
  /\ IF Invalid(lock)
     THEN /\ Raise(LockException)
          /\ UNCHANGED response
     ELSE \E resp \in HeadObject(KeyName(LockPath(lock))) :
            LET exists == ObjectExists(resp) IN
            /\ response' = resp
            /\ IF exists.ok THEN Return(Bool(~exists.value)) ELSE Raise(exists.exc)
  /\ UNCHANGED <<store, seconds, attempts, polls, lockRest>>

\* wait_for_set / wait_for_unset up to the call of waiter.wait, for the
\* arguments in lop': validate_lock, attempts, and the early return of
\* wait_for_object_condition for a path that names no object.
WaitBegin ==
  LET bound == ParseBound(lop'.bound) IN
  /\ response' = None
  /\ polls' = 0
  /\ IF Invalid(lop'.lock)
     THEN /\ Raise(LockException)
          /\ UNCHANGED <<seconds, attempts>>
     ELSE IF ~bound.ok
     THEN /\ Raise(LockException)
          /\ UNCHANGED <<seconds, attempts>>
     ELSE /\ seconds' = bound.value
          /\ attempts' = Attempts(bound.value, lop'.interval)
          /\ IF IsObject(LockPath(lop'.lock))
             THEN /\ lpc' = "polling"
                  /\ lret' = None
                  /\ raised' = None
             ELSE Return(None)
  /\ UNCHANGED <<store, lockRest>>

\* The time bounds and poll intervals callers wait with.
LockBounds == {None, <<>>, <<"1", "2", "s">>, <<"3", "0", "s">>, <<"3", "0">>}

LockIntervals == {5, 15}

WaitForSet(lock, interval, bound) ==
  /\ Called("wait_for_set", lock, interval, bound)
  /\ WaitBegin

WaitForUnset(lock, interval, bound) ==
  /\ Called("wait_for_unset", lock, interval, bound)
  /\ WaitBegin

\* 'object_exists' for wait_for_object, 'object_not_exists' for
\* wait_for_no_object.
Condition == IF lop.name = "wait_for_set" THEN "object_exists" ELSE "object_not_exists"

\* One pass of the loop of waiter.wait: a head_object request, then return,
\* WaiterError, or the sleep before the next pass.
WaiterPoll ==
  /\ lpc = "polling"
  /\ polls < MaxPolls
  /\ \E resp \in HeadObject(KeyName(LockPath(lop.lock))) :
       LET state == Waiter(Condition, resp) IN
       /\ response' = resp
       /\ polls' = polls + 1
       /\ IF state = "success" THEN Return(None)
          ELSE IF state = "failure" THEN Raise(WaiterError(resp))
          ELSE IF polls + 1 >= attempts THEN Raise(WaiterError(MaxAttemptsExceeded))
          ELSE UNCHANGED <<lpc, lret, raised>>
  /\ UNCHANGED <<store, lop, seconds, attempts, was_set, quiet, lockRest>>

\* Another process (the job in its container) sets or unsets a lock.
OtherSet(lock) ==
  /\ lpc \in {"idle", "returned", "raised", "polling"}
  /\ KeyName(LockPath(lock)) \notin store
  /\ store' = store \cup {KeyName(LockPath(lock))}
  /\ quiet' = FALSE
  /\ UNCHANGED <<lop, lpc, lret, raised, response, seconds, attempts, polls,
                 was_set, lockRest>>

OtherUnset(lock) ==
  /\ lpc \in {"idle", "returned", "raised", "polling"}
  /\ KeyName(LockPath(lock)) \in store
  /\ store' = store \ {KeyName(LockPath(lock))}
  /\ quiet' = FALSE
  /\ UNCHANGED <<lop, lpc, lret, raised, response, seconds, attempts, polls,
                 was_set, lockRest>>

\* The orchestrator is not running.
SubmitOff ==
  /\ self = [build |-> TRUE, property |-> TRUE, coverage |-> TRUE,
             report |-> TRUE, jobname |-> RunName]
  /\ pc = "off"
  /\ build_job = NoJob
  /\ property_job = NoJob
  /\ coverage_job = NoJob
  /\ report_job = NoJob
  /\ buildjob = <<>>
  /\ propertyjob = <<>>
  /\ coveragejob = <<>>
  /\ command = <<>>
  /\ results = None
  /\ raised = None
  /\ queue = <<>>
  /\ calls = <<>>

\* Lock.__init__ has found the bucket; no lock is set yet.
InitLock ==
  /\ SubmitOff
  /\ MonitorOff
  /\ store = {}
  /\ lop = [name |-> "none", lock |-> "", interval |-> 0, bound |-> None,
            after |-> "none"]
  /\ lpc = "idle"
  /\ lret = None
  /\ response = None
  /\ seconds = 0
  /\ attempts = 0
  /\ polls = 0
  /\ was_set = FALSE
  /\ quiet = TRUE
  /\ MiscOff

\* set, unset, is_set and is_unset called in any order, beside another
\* process.
NextLock ==
  \/ \E lock \in LockNames : Set(lock)
  \/ \E lock \in LockNames : Unset(lock)
  \/ \E lock \in LockNames : IsSet(lock)
  \/ \E lock \in LockNames : IsUnset(lock)
  \/ \E lock \in LockSet : OtherSet(lock)
  \/ \E lock \in LockSet : OtherUnset(lock)

SpecLock == InitLock /\ [][NextLock]_vars

\* wait_for_set and wait_for_unset called in any order, beside another
\* process that sets and unsets the locks waited for.
NextWait ==
  \/ \E lock \in WaitNames, interval \in LockIntervals, bound \in LockBounds :
       WaitForSet(lock, interval, bound)
  \/ \E lock \in WaitNames, interval \in LockIntervals, bound \in LockBounds :
       WaitForUnset(lock, interval, bound)
  \/ WaiterPoll
  \/ \E lock \in WaitNames \cap LockSet : OtherSet(lock)
  \/ \E lock \in WaitNames \cap LockSet : OtherUnset(lock)

SpecWait == InitLock /\ [][NextWait]_vars

\* ------------------------------------------------- parse_bound on its own

BoundAlphabet == {"0", "1", "d", "h", "m", "s", " ", "x"}

\* The strings over BoundAlphabet of length n.
Strings(n) == [1..n -> BoundAlphabet]

\* Example bounds beyond MaxLen.
BoundExamples ==
  {<<"1", "d", "2", "h", "3", "m", "4", "s">>,
   <<"3", "0", "s">>,
   <<"2", "h", "1", "d">>,
   <<"1", "s", "1", "s">>,
   <<"1", "w">>,
   <<"4", "5">>,
   <<"9", "0", "m">>,
   <<" ", "1", " ", "h", " ", "7", "s", " ">>}

BoundInputs == {None} \cup BoundExamples \cup UNION {Strings(n) : n \in 0..MaxLen}

\* wait_for_set is about to be called with some bound and interval.
InitBound ==
  /\ SubmitOff
  /\ MonitorOff
  /\ store = {}
  /\ lop \in [name : {"wait_for_set", "wait_for_unset"}, lock : {"build.txt"},
              interval : 1..MaxInterval, bound : BoundInputs, after : {"none"}]
  /\ lpc = "called"
  /\ lret = None
  /\ response = None
  /\ seconds = 0
  /\ attempts = 0
  /\ polls = 0
  /\ was_set = FALSE
  /\ quiet = TRUE
  /\ MiscOff

\* The call computes its attempts, or raises.
WaitCalled ==
  /\ lpc = "called"
  /\ UNCHANGED <<lop, was_set, quiet>>
  /\ WaitBegin

NextBound == WaitCalled

SpecBound == InitBound /\ [][NextBound]_vars

\* ------------------------------------------------------- properties: locks

\* The step is a call of the Lock method `name` (a step of another process
\* leaves quiet false).
IsCall(name) == lop'.name = name /\ quiet' /\ lpc' \in {"returned", "raised"}

\* C12: Lock.set with a name outside {build.txt, property.txt, coverage.txt,
\* report.txt} always raises the unknown-lock LockException and writes
\* nothing, the empty string and 'Build.txt' included.
C12_SetRejectsUnknownLock ==
  [][IsCall("set")
     /\ lop'.lock \notin {"build.txt", "property.txt", "coverage.txt", "report.txt"}
     => /\ lpc' = "raised"
        /\ raised' = LockException
        /\ store' = store]_vars

\* set('Build.txt') has raised LockException.
C12_Witness ==
  /\ lop.name = "set"
  /\ lop.lock = "Build.txt"
  /\ lpc = "raised"
  /\ raised = LockException

\* C13: with no other writer and a store that answers every request, is_set
\* called right after set returned is true, and is_unset called right after
\* unset returned is true, for each of the four locks and whatever the
\* lock's state was before.
C13_SetThenIsSet ==
  /\ lop.name = "is_set" /\ lop.after = "set" /\ response \notin Faults
       => lpc = "returned" /\ lret = True
  /\ lop.name = "is_unset" /\ lop.after = "unset" /\ response \notin Faults
       => lpc = "returned" /\ lret = True

\* is_unset has returned True right after unset.
C13_Witness ==
  /\ lop.name = "is_unset"
  /\ lop.after = "unset"
  /\ lop.lock = "coverage.txt"
  /\ lret = True

\* C14: set and unset are idempotent.  Whenever the store answers its
\* requests, set returns without error and leaves the lock's object present,
\* unset returns without error and leaves it absent, whether or not the
\* object was there before; so set on a set lock and unset on an unset (or
\* never set) lock leave the store as it was.
C14_SetUnsetIdempotent ==
  [][/\ IsCall("set") /\ lop'.lock \in LockSet /\ response' \notin Faults
          => /\ lpc' = "returned"
             /\ store' = store \cup {KeyName(LockPath(lop'.lock))}
             /\ (lop'.after = "set" => store' = store)
     /\ IsCall("unset") /\ lop'.lock \in LockSet /\ response' \notin Faults
          => /\ lpc' = "returned"
             /\ store' = store \ {KeyName(LockPath(lop'.lock))}
             /\ (~was_set' => store' = store)]_vars

\* unset has returned from a call on a lock that was not set.
C14_Witness ==
  /\ lop.name = "unset"
  /\ ~was_set
  /\ lpc = "returned"
  /\ store = {}

\* ------------------------------------------------ properties: parse_bound

\* C15 as stated: the attempt budget of wait_for_set and wait_for_unset is
\* the bound in seconds divided by the interval, rounded up, plus one.
C15_AttemptsRoundedUp ==
  lpc = "polling" =>
    /\ (attempts - 2) * lop.interval < seconds
    /\ seconds <= (attempts - 1) * lop.interval

\* C15, amended: the attempt budget of wait_for_set and wait_for_unset is
\* the bound in seconds divided by the interval, rounded down, plus one, for
\* every bound and every positive interval.
C15_AttemptsRoundedDown ==
  lpc = "polling" =>
    /\ (attempts - 1) * lop.interval <= seconds
    /\ seconds < attempts * lop.interval

\* A budget for a bound that is no multiple of the interval: 11 seconds at
\* interval 5 give 3 attempts.
C15_Witness ==
  /\ lpc = "polling"
  /\ lop.bound = <<"1", "1", "s">>
  /\ lop.interval = 5
  /\ seconds = 11
  /\ attempts = 3

\* -------------------------------------------------- properties: waiting

\* The current wait_for_set or wait_for_unset passed validate_lock and
\* parse_bound, and the store has answered each of its polls so far.
Waiting(name) ==
  /\ lop.name = name
  /\ lop.lock \in LockSet
  /\ ParseBound(lop.bound).ok
  /\ response \notin Faults

\* C16: when the lock is not set at the call of wait_for_set and no process
\* sets it, the wait never returns normally and never polls more than
\* floor(bound/interval)+1 times; it raises the waiter's timeout error
\* exactly when that many polls have been made (7 for interval 5 and bound
\* '30s').
C16_TimeoutAfterBudget ==
  Waiting("wait_for_set") /\ ~was_set /\ quiet =>
    /\ lpc \in {"polling", "raised"}
    /\ polls <= (seconds \div lop.interval) + 1
    /\ lpc = "polling" => polls < (seconds \div lop.interval) + 1
    /\ lpc = "raised" =>
         /\ raised = WaiterError(MaxAttemptsExceeded)
         /\ polls = (seconds \div lop.interval) + 1
         /\ (lop.bound = <<"3", "0", "s">> /\ lop.interval = 5 => polls = 7)

\* wait_for_set('build.txt', 5, '30s') has timed out on a lock nobody set.
C16_Witness ==
  /\ Waiting("wait_for_set")
  /\ ~was_set
  /\ quiet
  /\ lop.bound = <<"3", "0", "s">>
  /\ lop.interval = 5
  /\ lpc = "raised"
  /\ raised = WaiterError(MaxAttemptsExceeded)
  /\ polls = 7

\* C17: wait_for_set and wait_for_unset return normally only from a poll,
\* and only from one that found the lock set, respectively unset; and a
\* poll of wait_for_set that the store answers while the lock is set (by
\* whichever process) makes the wait return at once.
C17_ReturnsOnObservation ==
  [][LET key == KeyName(LockPath(lop.lock)) IN
     /\ lpc' = "returned" /\ lpc # "returned" =>
          /\ polls' = polls + 1
          /\ polls' <= attempts
          /\ lop.name = "wait_for_set" => key \in store /\ response' = Ok
          /\ lop.name = "wait_for_unset" => key \notin store /\ response' = NotFound
     /\ polls' = polls + 1 /\ lop.name = "wait_for_set" /\ key \in store
          /\ response' \notin Faults
          => lpc' = "returned" /\ raised' = None]_vars

\* wait_for_set has returned at a later poll, after another process set a
\* lock that was not set at the call.
C17_Witness ==
  /\ lop.name = "wait_for_set"
  /\ lpc = "returned"
  /\ ~was_set
  /\ ~quiet
  /\ polls >= 2
  /\ response = Ok

\* ------------------------------------------ properties: parse_bound values

\* The bound with its white space taken out.
NotSpace(c) == c # " "

Stripped(bound) == SelectSeq(bound, NotSpace)

\* `part` is an absent component, or a number followed by `unit`.
IsComponent(part, unit) ==
  \/ part = <<>>
  \/ /\ Len(part) >= 2
     /\ part[Len(part)] = unit
     /\ \A i \in 1..(Len(part) - 1) : part[i] \in DigitChars

\* The number of a component (0 if absent).
ComponentValue(part) ==
  IF part = <<>> THEN 0 ELSE ToInt(SubSeq(part, 1, Len(part) - 1))

\* The ways to read str as a day, an hour, a minute and a second component,
\* in this order.
Readings(str) ==
  {r \in [d : 0..Len(str), h : 0..Len(str), m : 0..Len(str)] :
     /\ r.d <= r.h /\ r.h <= r.m
     /\ IsComponent(SubSeq(str, 1, r.d), "d")
     /\ IsComponent(SubSeq(str, r.d + 1, r.h), "h")
     /\ IsComponent(SubSeq(str, r.h + 1, r.m), "m")
     /\ IsComponent(SubSeq(str, r.m + 1, Len(str)), "s")}

\* ((d*24+h)*60+m)*60+s for a reading.
ReadingSeconds(str, r) ==
  ((ComponentValue(SubSeq(str, 1, r.d)) * 24
    + ComponentValue(SubSeq(str, r.d + 1, r.h))) * 60
   + ComponentValue(SubSeq(str, r.h + 1, r.m))) * 60
  + ComponentValue(SubSeq(str, r.m + 1, Len(str)))

\* C18: parse_bound maps a string with components d, h, m, s (each
\* optional, absent meaning 0) to ((d*24+h)*60+m)*60+s seconds, so
\* '1d2h3m4s' gives 93784 and '' gives 0; None gives sys.maxsize, which no
\* parsed bound exceeds.
C18_ParseBoundValue ==
  lpc # "called" =>
    /\ lop.bound # None =>
         \A r \in Readings(Stripped(lop.bound)) :
           lpc = "polling" /\ seconds = ReadingSeconds(Stripped(lop.bound), r)
    /\ lop.bound = <<"1", "d", "2", "h", "3", "m", "4", "s">> => seconds = 93784
    /\ lop.bound = <<>> => lpc = "polling" /\ seconds = 0
    /\ lop.bound = None => lpc = "polling" /\ seconds = SysMaxsize
    /\ seconds <= SysMaxsize

\* parse_bound('1d2h3m4s') has given 93784.
C18_Witness ==
  /\ lpc = "polling"
  /\ lop.bound = <<"1", "d", "2", "h", "3", "m", "4", "s">>
  /\ seconds = 93784

\* C19: parse_bound accepts exactly the strings that, with all white space
\* removed, read as an optional day, hour, minute and second component in
\* this order; every other string ('2h1d', a repeated component, an unknown
\* unit, a bare number) raises the cannot-parse LockException and gives no
\* value.
C19_ParseBoundAccepts ==
  lpc # "called" /\ lop.bound # None =>
    /\ lpc = "polling" <=> Readings(Stripped(lop.bound)) # {}
    /\ lpc # "polling" => lpc = "raised" /\ raised = LockException /\ attempts = 0
    /\ lop.bound \in {<<"2", "h", "1", "d">>, <<"1", "s", "1", "s">>,
                      <<"1", "w">>, <<"4", "5">>} => lpc = "raised"

\* parse_bound('2h1d') has raised LockException.
C19_Witness ==
  /\ lop.bound = <<"2", "h", "1", "d">>
  /\ lpc = "raised"
  /\ raised = LockException

\* ------------------------------------------- properties: backend failures

\* C20, for the requests of the Lock methods: a request the object store
\* answers with an error code makes the method raise an error that carries
\* that code; no such answer becomes a normal return value.
C20_FailuresSurfaced ==
  response \in Faults =>
    /\ lpc = "raised"
    /\ raised[Len(raised)] = response[1]

\* ------------------------------------------- properties: monitor filters

\* C30: every poll of monitor_status filters by the job name and the job id
\* the caller passed in, in the first poll and in every later one.
C30_PollUsesCallerFilter ==
  mpc = "poll" => jobname = args.jobname /\ jobid = args.jobid

\* --------------------------------------- properties: submission commands

DoFlags == {"--dobuild", "--doproperty", "--docoverage", "--doreport"}

\* The positions of the phase flags in a command.
FlagPositions(cmd) == {k \in DOMAIN cmd : cmd[k] \in DoFlags}

\* C23: the command of each phase submission holds exactly one of
\* --dobuild, --doproperty, --docoverage, --doreport, the flag of its own
\* phase, followed by --jobname <runName>-<phaseName>, and the job is named
\* <runName>-<phaseName>, whatever was submitted before it in the call.
C23_OnePhaseFlagPerCommand ==
  \A i \in DOMAIN calls :
    calls[i].request.op = "submit_job" =>
      \E p \in PhaseSet :
        LET cmd == calls[i].request.command
            name == RunName \o <<"-", p>>
        IN /\ calls[i].request.jobName = name
           /\ \E k \in FlagPositions(cmd) :
                /\ FlagPositions(cmd) = {k}
                /\ cmd[k] = "--do" \o p
                /\ k + 1 + Len(name) <= Len(cmd)
                /\ cmd[k + 1] = "--jobname"
                /\ SubSeq(cmd, k + 2, k + 1 + Len(name)) = name
           /\ Cardinality({k \in DOMAIN cmd : cmd[k] = "--jobname"}) = 1

\* All four phases were submitted in one call, the report last.
C23_Witness ==
  /\ Len(calls) = 4
  /\ \A i \in DOMAIN calls : calls[i].ok
  /\ calls[4].request.jobName = RunName \o <<"-", "report">>
  /\ command = Command

\* ----------------------------------------- bin/batch.py: Batch.kill_job

\* kill_job is called: its job_status poll begins.
KillBegin ==
  /\ mpc = "kill"
  /\ mpc' = "poll"
  /\ query' = 1
  /\ poll_results' = <<>>
  /\ listed' = <<>>
  /\ UNCHANGED <<miscVars, lockVars, orchVars, queue, calls, args, jobname, jobid, status, jobs,
                 output, notified, settled>>

\* jids = [job['jobId'] for job in jobs]
Jids(list) == [i \in DOMAIN list |-> list[i].jobId]

\* client.terminate_job(jobId=jid) as kill_job records it.
TerminateCall(jid, ok) ==
  [request |-> [op |-> "terminate_job", jobId |-> jid], ok |-> ok, jobId |-> None]

\* The backend fails a terminated job that is not final yet.
Terminated(q, killed) ==
  [j \in DOMAIN q |->
     IF j \in killed /\ q[j].status \notin Terminal
     THEN [q[j] EXCEPT !.status = "FAILED"] ELSE q[j]]

\* The loop `for jid in jids: self.client.terminate_job(...)`: the first n
\* requests succeed; if there are more, the next one raises ClientError and
\* abort raises BatchException.
KillTerminate ==
  /\ mpc = "process"
  /\ LET jids == Jids(jobs) IN
     \E n \in 0..Len(jids) :
       /\ calls' = calls
                   \o [i \in 1..n |-> TerminateCall(jids[i], TRUE)]
                   \o (IF n < Len(jids) THEN <<TerminateCall(jids[n + 1], FALSE)>>
                       ELSE <<>>)
       /\ queue' = Terminated(queue, {jids[i] : i \in 1..n})
       /\ IF n < Len(jids)
          THEN mpc' = "raised" /\ raised' = <<"BatchException">>
          ELSE mpc' = "killed" /\ raised' = raised
  /\ UNCHANGED <<miscVars, lockVars, self, pc, build_job, property_job, coverage_job, report_job,
                 buildjob, propertyjob, coveragejob, command, results,
                 args, jobname, jobid, status, jobs, query, poll_results, listed,
                 output, notified, settled>>

\* kill_job is about to be called on a queue that holds the jobs of a run.
InitKill ==
  /\ self = [build |-> TRUE, property |-> TRUE, coverage |-> TRUE,
             report |-> TRUE, jobname |-> RunName]
  /\ pc = "off"
  /\ build_job = NoJob
  /\ property_job = NoJob
  /\ coverage_job = NoJob
  /\ report_job = NoJob
  /\ buildjob = <<>>
  /\ propertyjob = <<>>
  /\ coveragejob = <<>>
  /\ command = <<>>
  /\ results = None
  /\ raised = None
  /\ calls = <<>>
  /\ queue = [j \in {<<"j", Digits[i]>> : i \in 1..NumQueued} |->
                QueuedJob(CHOOSE i \in 1..NumQueued : j = <<"j", Digits[i]>>)]
  /\ mpc = "kill"
  /\ args \in Filters
  /\ jobname = args.jobname
  /\ jobid = args.jobid
  /\ status = <<>>
  /\ jobs = <<>>
  /\ query = 1
  /\ poll_results = <<>>
  /\ listed = <<>>
  /\ output = <<>>
  /\ notified = FALSE
  /\ settled = FALSE
  /\ LockOff
  /\ MiscOff

NextKill ==
  \/ KillBegin
  \/ ListJobs
  \/ ListJobsFail
  \/ KillTerminate
  \/ JobAdvance

SpecKill == InitKill /\ [][NextKill]_vars

\* The terminate requests kill_job issued for job j.
TerminateCalls(j) ==
  {i \in DOMAIN calls : calls[i].request.op = "terminate_job"
                        /\ calls[i].request.jobId = j}

\* C21: when kill_job returns, it has issued exactly one terminate request
\* for each job the caller's filter matches and none for any other job,
\* however the backend moved the jobs during the poll.
C21_TerminateOncePerMatch ==
  mpc = "killed" =>
    \A j \in DOMAIN queue :
      Cardinality(TerminateCalls(j)) =
        IF Matches(args.jobid, args.jobname, j, queue[j].jobName) THEN 1 ELSE 0

\* ----------------------------------------- bin/batch.py: Batch.__init__

\* Longest list of job definitions, and of job queues, the account holds.
MaxDefs == 2

DefName == <<"jobdef">>

QueueName == <<"jobqueue">>

\* Every variable but those of Batch.__init__ and `raised`.
batchRest == <<worker, checker, trigger, policy, runs, clog, options, docker, launcher, lockVars, self, pc, build_job, property_job, coverage_job, report_job,
               buildjob, propertyjob, coveragejob, command, results, queue, calls,
               monVars>>

\* The sequences over S of length at most n.
SeqsUpTo(S, n) == UNION {[1..k -> S] : k \in 0..n}

\* The loop of job_definition_exists over jobdefs from position i on, with
\* `found` as it stands: "abort" if it aborts on a second active
\* definition, else the value of found at the end.
RECURSIVE DefinitionLoop_AnyStatus(_, _, _, _)
DefinitionLoop_AnyStatus(jobdefs, jobdef, i, found) ==
  IF i > Len(jobdefs) THEN (IF found THEN "found" ELSE "none")
  ELSE IF jobdefs[i].jobDefinitionName = jobdef
       THEN IF found THEN "abort"
            ELSE DefinitionLoop_AnyStatus(jobdefs, jobdef, i + 1, TRUE)
       ELSE DefinitionLoop_AnyStatus(jobdefs, jobdef, i + 1, found)

RECURSIVE DefinitionLoop_KeepFirst(_, _, _, _)
DefinitionLoop_KeepFirst(jobdefs, jobdef, i, found) ==
  IF i > Len(jobdefs) THEN (IF found THEN "found" ELSE "none")
  ELSE IF jobdefs[i].jobDefinitionName = jobdef /\ jobdefs[i].status = "ACTIVE"
       THEN DefinitionLoop_KeepFirst(jobdefs, jobdef, i + 1, TRUE)
       ELSE DefinitionLoop_KeepFirst(jobdefs, jobdef, i + 1, found)

RECURSIVE DefinitionLoop(_, _, _, _)
DefinitionLoop(jobdefs, jobdef, i, found) ==
  IF i > Len(jobdefs) THEN (IF found THEN "found" ELSE "none")
  ELSE IF jobdefs[i].jobDefinitionName = jobdef /\ jobdefs[i].status = "ACTIVE"
       THEN IF found THEN "abort"
            ELSE DefinitionLoop(jobdefs, jobdef, i + 1, TRUE)
       ELSE DefinitionLoop(jobdefs, jobdef, i + 1, found)

\* The loop of job_queue_exists.
RECURSIVE QueueLoop(_, _, _, _)
QueueLoop(jobqueues, jobqueue, i, found) ==
  IF i > Len(jobqueues) THEN (IF found THEN "found" ELSE "none")
  ELSE IF jobqueues[i].jobQueueName = jobqueue
       THEN IF found THEN "abort"
            ELSE QueueLoop(jobqueues, jobqueue, i + 1, TRUE)
       ELSE QueueLoop(jobqueues, jobqueue, i + 1, found)

\* job_queue_exists(queuename): "found" or "none" for its return value, or
\* the message it aborts with.
JobQueueExists(queuename) ==
  IF queuename = None THEN "none"
  ELSE IF backend.fault = "queues" THEN "Failed to get job queues from Batch"
  ELSE LET r == QueueLoop(backend.jobQueues, queuename, 1, FALSE) IN
       IF r = "abort" THEN "Job queues from Batch contained multiple definitions"
       ELSE r

\* job_definition_exists(jobdef), likewise.
JobDefinitionExists(jobdef) ==
  IF jobdef = None THEN "none"
  ELSE IF backend.fault = "definitions" THEN "Failed to get job definitions from Batch"
  ELSE LET r == DefinitionLoop(backend.jobDefinitions, jobdef, 1, FALSE) IN
       IF r = "abort"
       THEN "Job definitions from Batch contained multiple active definitions"
       ELSE r

BatchAbort(msg) == <<"BatchException", msg>>

\* Batch.__init__(jobname, queuename, region): the queue is checked first,
\* then the job definition; the instance exists only if neither check
\* aborts.
BatchInit ==
  /\ batch.pc = "new"
  /\ LET q == JobQueueExists(batch.queuename)
         d == JobDefinitionExists(batch.jobname)
     IN IF batch.queuename # None /\ q # "found"
        THEN /\ raised' = BatchAbort(IF q = "none" THEN "No job queue found" ELSE q)
             /\ batch' = [batch EXCEPT !.pc = "raised", !.jobqueue = batch.queuename]
        ELSE IF batch.jobname # None /\ d # "found"
        THEN /\ raised' = BatchAbort(IF d = "none" THEN "No job definition found" ELSE d)
             /\ batch' = [batch EXCEPT !.pc = "raised", !.jobqueue = batch.queuename,
                                       !.jobdefinition = batch.jobname]
        ELSE /\ raised' = None
             /\ batch' = [batch EXCEPT !.pc = "ready", !.jobqueue = batch.queuename,
                                       !.jobdefinition = batch.jobname]
  /\ UNCHANGED <<backend, batchRest>>

\* The job definitions and job queues an account can hold.
Definitions ==
  [jobDefinitionName : {DefName, <<"other">>}, status : {"ACTIVE", "INACTIVE"}]

Queues == [jobQueueName : {QueueName, <<"other">>}]

\* Batch(jobname, queuename, region) is about to be constructed.
InitBatch ==
  /\ SubmitOff
  /\ MonitorOff
  /\ LockOff
  /\ WorkerOff
  /\ CheckerOff
  /\ TriggerOff
  /\ PolicyOff
  /\ RunsOff
  /\ ClogOff
  /\ OptionsOff
  /\ LauncherOff
  /\ DockerOff
  /\ backend \in [jobDefinitions : SeqsUpTo(Definitions, MaxDefs),
                  jobQueues : SeqsUpTo(Queues, MaxDefs),
                  fault : {"none", "queues", "definitions"}]
  /\ batch \in [pc : {"new"}, jobname : {None, DefName}, queuename : {None, QueueName},
                jobqueue : {None}, jobdefinition : {None}]

NextBatch == BatchInit

SpecBatch == InitBatch /\ [][NextBatch]_vars

\* -------------------------------------------- properties: Batch.__init__

\* The positions of the active job definitions named `name`.
ActiveDefinitions(name) ==
  {i \in DOMAIN backend.jobDefinitions :
     /\ backend.jobDefinitions[i].jobDefinitionName = name
     /\ backend.jobDefinitions[i].status = "ACTIVE"}

QueuesNamed(name) ==
  {i \in DOMAIN backend.jobQueues : backend.jobQueues[i].jobQueueName = name}

\* C22: constructing the Batch client raises BatchException, and gives no
\* instance to submit with, whenever more than one ACTIVE job definition has
\* the requested definition name or more than one job queue has the
\* requested queue name; inactive definitions do not count, so one active
\* definition among inactive ones of the same name is accepted.
C22_AmbiguousNamesFailFast ==
  batch.pc \in {"ready", "raised"} =>
    /\ batch.jobname # None /\ Cardinality(ActiveDefinitions(batch.jobname)) > 1
         => batch.pc = "raised" /\ raised[1] = "BatchException"
    /\ batch.queuename # None /\ Cardinality(QueuesNamed(batch.queuename)) > 1
         => batch.pc = "raised" /\ raised[1] = "BatchException"
    /\ (/\ backend.fault = "none"
        /\ batch.jobname # None
        /\ Cardinality(ActiveDefinitions(batch.jobname)) = 1
        /\ batch.queuename # None
        /\ Cardinality(QueuesNamed(batch.queuename)) = 1)
         => batch.pc = "ready" /\ raised = None

\* Two active definitions of the requested name: the constructor raised.
C22_Witness ==
  /\ batch.pc = "raised"
  /\ batch.jobname = DefName
  /\ Cardinality(ActiveDefinitions(DefName)) = 2
  /\ Cardinality(QueuesNamed(QueueName)) = 1
  /\ backend.fault = "none"
  /\ raised = BatchAbort("Job definitions from Batch contained multiple active definitions")

\* --------------------------- bin/options.py container_merge, bin/docker.py

\* Every variable but `docker` and `raised`.
dockerRest == <<worker, checker, trigger, policy, runs, clog, options, backend, batch, launcher, lockVars, self, pc, build_job, property_job, coverage_job,
                report_job, buildjob, propertyjob, coveragejob, command, results,
                queue, calls, monVars>>

\* options.merge: the first of its arguments that is not None.
Merge_FileFirst(val1, val2, val3) ==
  IF val2 # None THEN val2 ELSE IF val1 # None THEN val1 ELSE val3

Merge(val1, val2, val3) ==
  IF val1 # None THEN val1 ELSE IF val2 # None THEN val2 ELSE val3

\* The container options, in the order main tests them.
DoOptions == <<"dobuild", "doproperty", "docoverage", "doreport">>

DoSet == {DoOptions[i] : i \in 1..Len(DoOptions)}

\* int(bit) for a Python bool.
IntOf(bit) == IF bit = True THEN 1 ELSE 0

\* count = 0; for bit in bits: count += int(bit)
RECURSIVE Count(_)
Count(bits) == IF bits = <<>> THEN 0 ELSE IntOf(Head(bits)) + Count(Tail(bits))

\* more_than_one_set of container_merge.
MoreThanOneSet_Never(bits) == FALSE

MoreThanOneSet(bits) == Count(bits) > 1

\* more_than_one of main.
MoreThanOne(bits) == Count(bits) > 1

\* opts['do<phase>'] = merge(args.do<phase>, config.get('do<phase>', None), False)
ContainerOpts(args_, config) ==
  [f \in DoSet |-> Merge(args_[f], config[f], False)]

Bits(opts) == [i \in 1..Len(DoOptions) |-> opts[DoOptions[i]]]

\* The phase main launches for options that passed its test: that of the
\* first option set, in the order build, property, coverage, report.
RECURSIVE FirstSet(_, _)
FirstSet(opts, i) ==
  IF i > Len(DoOptions) THEN <<>>
  ELSE IF opts[DoOptions[i]] = True THEN <<DoOptions[i]>>
  ELSE FirstSet(opts, i + 1)

\* main of docker.py: docker_options (whose container_merge aborts with an
\* Exception on more than one option set), then the launch of one phase.
DockerMain ==
  /\ docker.pc = "start"
  /\ LET opts == ContainerOpts(docker.args, docker.config) IN
     IF MoreThanOneSet(Bits(opts))
     THEN /\ raised' = <<"Exception", "Too many commands passed to docker container.">>
          /\ docker' = [docker EXCEPT !.pc = "raised", !.opts = opts]
     ELSE /\ raised' = None
          /\ docker' = [docker EXCEPT
                          !.pc = "done",
                          !.opts = opts,
                          !.ran = IF MoreThanOne(Bits(opts)) THEN <<>>
                                  ELSE FirstSet(opts, 1)]
  /\ UNCHANGED dockerRest

\* The container script is started with some command line and some
\* configuration file: store_true options are True or None, values of the
\* file are true, false or absent.
InitDocker ==
  /\ SubmitOff
  /\ MonitorOff
  /\ LockOff
  /\ WorkerOff
  /\ CheckerOff
  /\ TriggerOff
  /\ PolicyOff
  /\ RunsOff
  /\ ClogOff
  /\ OptionsOff
  /\ LauncherOff
  /\ BatchOff
  /\ docker \in [pc : {"start"},
                 args : [DoSet -> {None, True}],
                 config : [DoSet -> {None, True, False}],
                 opts : {<<>>},
                 ran : {<<>>}]

NextDocker == DockerMain

SpecDocker == InitDocker /\ [][NextDocker]_vars

\* ----------------------------------------------- properties: docker main

\* The options that are set once command line and file are merged: the
\* command line says so, or it says nothing and the file does.
Resolved ==
  {f \in DoSet :
     docker.args[f] = True \/ (docker.args[f] = None /\ docker.config[f] = True)}

\* C24: a container invocation whose resolved options have more than one
\* of dobuild, doproperty, docoverage, doreport set fails with an error and
\* runs no phase; with exactly one set it runs that phase only; with none
\* set it runs no phase.
C24_OnePhasePerContainer ==
  docker.pc \in {"done", "raised"} =>
    /\ Cardinality(Resolved) > 1 =>
         docker.pc = "raised" /\ raised[1] = "Exception" /\ docker.ran = <<>>
    /\ Cardinality(Resolved) = 1 =>
         docker.pc = "done" /\ \E f \in Resolved : docker.ran = <<f>>
    /\ Cardinality(Resolved) = 0 => docker.pc = "done" /\ docker.ran = <<>>

\* Two options set, one on the command line and one in the file: the
\* invocation failed.
C24_Witness ==
  /\ docker.pc = "raised"
  /\ docker.args["dobuild"] = True
  /\ docker.args["doreport"] = None
  /\ docker.config["doreport"] = True
  /\ Cardinality(Resolved) = 2
  /\ docker.ran = <<>>

\* ------------------------ ci/snapshot/prepare_source.py generate_cbmc_jobs

\* Number of proofs find_tasks returns.
NumProofs == 3

\* Every variable but `launcher`.
launcherRest == <<worker, checker, trigger, policy, runs, clog, options, backend, batch, docker, lockVars, orchVars, queue, calls, monVars>>

\* update_status(state, proofname, ...) appended to the statuses posted.
Post(state, proof) == Append(launcher.posted, [state |-> state, proof |-> proof])

\* cbmc_ci_start.run_batch for the next proof.  It returns after cbmc_batch
\* submitted the proof's jobs; it raises before anything is submitted (a
\* missing yaml file, a rejected first job) or after some jobs were accepted
\* (a later job rejected: submit_jobs leaves the accepted ones in the queue).
RunBatch ==
  /\ launcher.pc = "next"
  /\ launcher.task <= NumProofs
  /\ \E outcome \in {"all", "none", "some"} :
       launcher' = [launcher EXCEPT
                      !.submitted = Append(launcher.submitted, outcome),
                      !.pc = IF outcome = "all" THEN "log" ELSE "except"]
  /\ UNCHANGED launcherRest

\* logger.create_child_correlation_list() and logger.launch_child(...): a list
\* copy and a printed log line.
LaunchChild ==
  /\ launcher.pc = "log"
  /\ launcher' = [launcher EXCEPT !.pc = "bookkeep"]
  /\ UNCHANGED launcherRest

\* batch_bookkeep, lines 279-284: the five bookkeep files are uploaded to S3;
\* a failed upload raises.
Bookkeep ==
  /\ launcher.pc = "bookkeep"
  /\ \E ok \in BOOLEAN :
       launcher' = [launcher EXCEPT !.pc = IF ok THEN "pending" ELSE "except"]
  /\ UNCHANGED launcherRest

\* batch_bookkeep, lines 286-288: update_status("pending", ...), after which
\* the loop goes on to the next proof.
UpdatePending ==
  /\ launcher.pc = "pending"
  /\ \E ok \in BOOLEAN :
       launcher' = IF ok
                   THEN [launcher EXCEPT !.posted = Post("pending", launcher.task),
                                         !.task = launcher.task + 1,
                                         !.pc = "next"]
                   ELSE [launcher EXCEPT !.pc = "except"]
  /\ UNCHANGED launcherRest

\* except Exception as e: pending_exception = e; update_status("error", ...).
\* If that update raises, the exception leaves generate_cbmc_jobs.
HandleException ==
  /\ launcher.pc = "except"
  /\ \E ok \in BOOLEAN :
       launcher' = IF ok
                   THEN [launcher EXCEPT !.pending_exception = TRUE,
                                         !.posted = Post("error", launcher.task),
                                         !.task = launcher.task + 1,
                                         !.pc = "next"]
                   ELSE [launcher EXCEPT !.pending_exception = TRUE, !.pc = "raised"]
  /\ UNCHANGED launcherRest

\* After the last proof: raise pending_exception if there is one.
LauncherEnd ==
  /\ launcher.pc = "next"
  /\ launcher.task > NumProofs
  /\ launcher' = [launcher EXCEPT
                    !.pc = IF launcher.pending_exception THEN "raised" ELSE "returned"]
  /\ UNCHANGED launcherRest

InitLauncher ==
  /\ SubmitOff
  /\ MonitorOff
  /\ LockOff
  /\ WorkerOff
  /\ CheckerOff
  /\ TriggerOff
  /\ PolicyOff
  /\ RunsOff
  /\ ClogOff
  /\ OptionsOff
  /\ BatchOff
  /\ DockerOff
  /\ launcher = [pc |-> "next", task |-> 1, submitted |-> <<>>, posted |-> <<>>,
                 pending_exception |-> FALSE]

NextLauncher ==
  \/ RunBatch
  \/ LaunchChild
  \/ Bookkeep
  \/ UpdatePending
  \/ HandleException
  \/ LauncherEnd

SpecLauncher == InitLauncher /\ [][NextLauncher]_vars

\* -------------------------------------- properties: generate_cbmc_jobs

\* C25: 'pending' is posted only for a proof whose jobs were submitted, and
\* 'error' only for a proof none of whose jobs was submitted; a proof with
\* submitted jobs is never reported as 'error'.
C25_ErrorOnlyWithoutJobs ==
  \A k \in DOMAIN launcher.posted :
    LET post == launcher.posted[k] IN
    /\ post.proof \in DOMAIN launcher.submitted
    /\ post.state = "pending" => launcher.submitted[post.proof] = "all"
    /\ post.state = "error" => launcher.submitted[post.proof] = "none"


\* ------------------------------------------------ options.py phase_merge

\* Every variable but `options`.
optionsRest == <<worker, checker, trigger, policy, runs, clog, backend, batch, docker, launcher, lockVars, orchVars, queue, calls, monVars>>

\* What --X / --no-X leave in args.X (store_true, store_false, default None),
\* and what the config file holds for X (None when the key is missing).
Tristate == {None, True, False}

\* phase_merge, lines 627-630: the four phase options.
PhaseOpts(args_, config) == [p \in PhaseSet |-> Merge(args_[p], config[p], True)]

PhaseMerge ==
  /\ options.pc = "start"
  /\ options' = [options EXCEPT !.pc = "merged",
                                !.opts = PhaseOpts(options.args, options.config)]
  /\ UNCHANGED optionsRest

InitOptions ==
  /\ SubmitOff
  /\ MonitorOff
  /\ LockOff
  /\ WorkerOff
  /\ CheckerOff
  /\ TriggerOff
  /\ PolicyOff
  /\ RunsOff
  /\ ClogOff
  /\ BatchOff
  /\ DockerOff
  /\ LauncherOff
  /\ options \in [pc : {"start"},
                  args : [PhaseSet -> Tristate],
                  config : [PhaseSet -> Tristate],
                  opts : {<<>>}]

NextOptions == PhaseMerge

SpecOptions == InitOptions /\ [][NextOptions]_vars

\* ------------------------------------------------ properties: phase_merge

\* C26: each phase's enabled flag is the command-line value when --X or
\* --no-X was given, else the config-file value when the file has one, else
\* true; the flag of a phase depends on that phase's two sources only.
C26_PhaseFlagPrecedence ==
  options.pc = "merged" =>
    \A p \in PhaseSet :
      /\ options.args[p] = True => options.opts[p] = True
      /\ options.args[p] = False => options.opts[p] = False
      /\ (options.args[p] = None /\ options.config[p] = True) => options.opts[p] = True
      /\ (options.args[p] = None /\ options.config[p] = False) => options.opts[p] = False
      /\ (options.args[p] = None /\ options.config[p] = None) => options.opts[p] = True

\* --no-build on the command line against build: true in the file, while
\* another phase is left to its default.
C26_Witness ==
  /\ options.pc = "merged"
  /\ options.args["build"] = False
  /\ options.config["build"] = True
  /\ options.opts["build"] = False
  /\ options.args["report"] = None
  /\ options.config["report"] = None
  /\ options.opts["report"] = True
  /\ options.args["property"] = None
  /\ options.config["property"] = False
  /\ options.opts["property"] = False


\* ------------------------------------------ ci/snapshot/clog_writert.py

\* Number of tasks in one task tree.
MaxTasks == 6

\* Every variable but `clog`.
clogRest == <<worker, checker, trigger, policy, runs, backend, batch, docker, launcher, options, lockVars, orchVars, queue, calls,
              monVars>>

\* The id of the n-th task: a lambda's aws_request_id, a CodeBuild build id.
TaskId(n) == <<"task", n>>

\* str(uuid.uuid4()): an id that was not drawn before.
Uuid4(drawn) == <<"uuid", drawn + 1>>

\* list.copy()
Copy(list) == list

\* CLogWriter.init_lambda: the event's correlation_list, [task_id] without one.
InitLambda(task_id, event) ==
  [task_id |-> task_id,
   correlation_list |-> Copy(IF event = None THEN <<task_id>> ELSE event),
   parent |-> 0]

\* prepare_source.source_prepare: CLogWriter(name, arg.task_id,
\* arg.correlation_list), the list read from CORRELATION_LIST, [] without it.
SourcePrepare(task_id, env) ==
  [task_id |-> task_id,
   correlation_list |-> IF env = None THEN <<>> ELSE env,
   parent |-> 0]

\* CLogWriter.create_child_correlation_list
CreateChildCorrelationList(logger) ==
  Append(Copy(logger.correlation_list), Uuid4(clog.uuids))

\* A task creates a child list and hands it to the task it starts: in the
\* event of a lambda (handle_webhook), in CORRELATION_LIST of the CodeBuild
\* run (cbmc_ci_start), per proof in generate_cbmc_jobs.  The started task
\* builds its own logger from the list it was given.
LaunchTask ==
  /\ clog.tasks # <<>>
  /\ Len(clog.tasks) < MaxTasks
  /\ \E p \in DOMAIN clog.tasks, lambda \in BOOLEAN :
       LET child_correlation_list == CreateChildCorrelationList(clog.tasks[p])
           task_id == TaskId(Len(clog.tasks) + 1)
           started == IF lambda
                      THEN InitLambda(task_id, child_correlation_list)
                      ELSE SourcePrepare(task_id, child_correlation_list)
       IN  clog' = [tasks |-> Append(clog.tasks, [started EXCEPT !.parent = p]),
                    uuids |-> clog.uuids + 1]
  /\ UNCHANGED clogRest

\* The root task: a lambda started by an event without a correlation list, or
\* prepare_source started without CORRELATION_LIST.
InitClog ==
  /\ SubmitOff
  /\ MonitorOff
  /\ LockOff
  /\ WorkerOff
  /\ CheckerOff
  /\ TriggerOff
  /\ PolicyOff
  /\ RunsOff
  /\ BatchOff
  /\ DockerOff
  /\ LauncherOff
  /\ OptionsOff
  /\ clog \in [tasks : {<<InitLambda(TaskId(1), None)>>, <<SourcePrepare(TaskId(1), None)>>},
               uuids : {0}]

NextClog == LaunchTask

SpecClog == InitClog /\ [][NextClog]_vars

\* ------------------------------------------ properties: correlation lists

\* C27: a child's correlation list is its parent's list followed by one new
\* id, the head of every descendant's list is the root task's id, and two
\* children of one parent never have the same list.
C27_ChildListExtendsParent ==
  \A c \in DOMAIN clog.tasks :
    LET child == clog.tasks[c] IN
    child.parent # 0 =>
      LET parent == clog.tasks[child.parent] IN
      /\ Len(child.correlation_list) = Len(parent.correlation_list) + 1
      /\ SubSeq(child.correlation_list, 1, Len(parent.correlation_list))
           = parent.correlation_list
      /\ child.correlation_list[1] = clog.tasks[1].task_id
      /\ \A d \in DOMAIN clog.tasks :
           (d # c /\ clog.tasks[d].parent = child.parent)
             => clog.tasks[d].correlation_list # child.correlation_list


\* --------------------------------------------- options.py job_name_merge

\* Clock readings per second: time.time() is finer than the seconds gmtime
\* keeps.
TicksPerSecond == 2

\* Clock readings a behaviour goes through, and runs it starts.
MaxTicks == 4

MaxRuns == 3

\* Every variable but `runs`.
runsRest == <<worker, checker, trigger, policy, backend, batch, docker, launcher, options, clog, lockVars, orchVars, queue,
              calls, monVars>>

\* "{:0Nd}".format(n) for 0 <= n < 10^width, as a sequence of characters
DigitOf(n) == <<"0", "1", "2", "3", "4", "5", "6", "7", "8", "9">>[n + 1]

RECURSIVE Pad(_, _)
Pad(n, width) ==
  IF width = 0 THEN <<>> ELSE Append(Pad(n \div 10, width - 1), DigitOf(n % 10))

\* time.gmtime(): the whole seconds since the epoch as a calendar date (the
\* proleptic Gregorian calendar) and a time of day.
Gmtime(secs) ==
  LET days == secs \div 86400
      rest == secs % 86400
      z    == days + 719468
      era  == z \div 146097
      doe  == z % 146097
      yoe  == (doe - doe \div 1460 + doe \div 36524 - doe \div 146096) \div 365
      doy  == doe - (365 * yoe + yoe \div 4 - yoe \div 100)
      mp   == (5 * doy + 2) \div 153
      mon  == IF mp < 10 THEN mp + 3 ELSE mp - 9
  IN  [tm_year |-> yoe + era * 400 + (IF mon <= 2 THEN 1 ELSE 0),
       tm_mon  |-> mon,
       tm_mday |-> doy - (153 * mp + 2) \div 5 + 1,
       tm_hour |-> rest \div 3600,
       tm_min  |-> (rest % 3600) \div 60,
       tm_sec  |-> rest % 60]

\* timestamp(): "{:04d}{:02d}{:02d}-{:02d}{:02d}{:02d}" of gmtime at the
\* clock reading.
Timestamp(ticks) ==
  LET gmt == Gmtime(ticks \div TicksPerSecond) IN
  Pad(gmt.tm_year, 4) \o Pad(gmt.tm_mon, 2) \o Pad(gmt.tm_mday, 2) \o <<"-">>
    \o Pad(gmt.tm_hour, 2) \o Pad(gmt.tm_min, 2) \o Pad(gmt.tm_sec, 2)

\* opts['jobprefix']: --jobprefix, the config file's jobprefix, or 'cbmc'.
JobPrefix(args_, config) == Or(args_, Or(config, <<"c", "b", "m", "c">>))

\* opts['jobname'] when neither --jobname nor the config file gives one;
\* run_batch builds task_name + "-" + timestamp the same way.
JobName(jobprefix, ticks) == jobprefix \o <<"-">> \o Timestamp(ticks)

\* The --jobprefix values and the config file's jobprefix values tried.
Prefixes == {None, <<>>, <<"c", "i">>}

\* One run starts: job_name_merge reads the clock.
StartRun ==
  /\ runs.clock > 0
  /\ Len(runs.started) < MaxRuns
  /\ \E args_ \in Prefixes, config \in Prefixes :
       runs' = [runs EXCEPT
                  !.started = Append(runs.started,
                                     [start |-> runs.clock,
                                      jobname |-> JobName(JobPrefix(args_, config),
                                                          runs.clock)])]
  /\ UNCHANGED runsRest

\* Time passes.
Tick ==
  /\ runs.clock > 0
  /\ runs.elapsed < MaxTicks
  /\ runs' = [runs EXCEPT !.clock = runs.clock + 1, !.elapsed = runs.elapsed + 1]
  /\ UNCHANGED runsRest

\* Seconds since the epoch at which a behaviour starts: one second before
\* 1970-01-02, before 1972-03-01 and before 1980-01-01, and mid-morning
\* 1970-01-01.
StartSeconds == {86399, 68255999, 315532799, 36000}

InitRuns ==
  /\ SubmitOff
  /\ MonitorOff
  /\ LockOff
  /\ WorkerOff
  /\ CheckerOff
  /\ TriggerOff
  /\ PolicyOff
  /\ BatchOff
  /\ DockerOff
  /\ LauncherOff
  /\ OptionsOff
  /\ ClogOff
  /\ runs \in [clock : {secs * TicksPerSecond : secs \in StartSeconds},
               elapsed : {0},
               started : {<<>>}]

NextRuns ==
  \/ StartRun
  \/ Tick

SpecRuns == InitRuns /\ [][NextRuns]_vars

\* ----------------------------------------------- properties: job names

\* C28: any two runs started at two different times, their job names
\* derived as <prefix>-<timestamp>, have different job names, also when the
\* prefix is the same.
C28_JobNameUniquePerRun ==
  \A i, j \in DOMAIN runs.started :
    runs.started[i].start # runs.started[j].start
      => runs.started[i].jobname # runs.started[j].jobname


\* ------------------------- deployment_tools/aws_managers/BucketPolicyManager.py

\* Longest list of principals, and most statements, of a bucket policy.
MaxPrincipals == 2

MaxStatements == 2

\* Every variable but `policy`.
policyRest == <<worker, checker, trigger, backend, batch, docker, launcher, options, clog, runs, lockVars, orchVars,
                queue, calls, monVars>>

\* Account ids, as strings of characters.
Accounts == {<<"1", "0", "0", "0", "0", "0", "0", "0">>, <<"2">>, <<"3", "1">>}

ArnPrefix == <<"a", "r", "n", ":", "a", "w", "s", ":", "i", "a", "m", ":", ":">>

RootSuffix == <<":", "r", "o", "o", "t">>

\* "arn:aws:iam::{}:root".format(p), the principal build_bucket_policy_arns_list
\* writes for an account.
RootArn(account) == ArnPrefix \o account \o RootSuffix

\* str.replace(old, ""): every occurrence of old, left to right, removed.
RECURSIVE Remove(_, _)
Remove(str, old) ==
  IF Len(str) < Len(old) THEN str
  ELSE IF SubSeq(str, 1, Len(old)) = old
       THEN Remove(SubSeq(str, Len(old) + 1, Len(str)), old)
       ELSE <<Head(str)>> \o Remove(Tail(str), old)

\* lambda a: a.replace("arn:aws:iam::", "").replace(":root", "")
AccountId_PrefixOnly(a) == Remove(a, ArnPrefix)

AccountId(a) == Remove(Remove(a, ArnPrefix), RootSuffix)

\* policy if isinstance(policy, list) else [policy]
AsList(aws) == IF aws.list THEN aws.value ELSE <<aws.value>>

\* The "AWS" entry of a Principal: one ARN, or a list of ARNs.
PrincipalValues ==
  {[list |-> FALSE, value |-> RootArn(a)] : a \in Accounts}
    \cup {[list |-> TRUE, value |-> arns] :
            arns \in UNION {[1..n -> {RootArn(a) : a \in Accounts}] : n \in 0..MaxPrincipals}}

\* The Action lists tried: the two the template may return, one too short,
\* one too long.
ActionValues ==
  {<<"s3:ListBucket", "s3:GetObject">>, <<"s3:GetObject", "s3:ListBucket">>,
   <<"s3:GetObject">>, <<"s3:GetObject", "s3:ListBucket", "s3:PutObject">>}

Statements == [Principal : PrincipalValues, Action : ActionValues]

\* set(action)
SetOf(list) == {list[i] : i \in DOMAIN list}

UnexpectedPolicy == <<"Exception", "UNEXPECTED_POLICY_MSG">>

\* What s3.get_bucket_policy raises: no policy on the bucket, or another
\* client error.
MissingBucketPolicy == <<"ClientError", "NoSuchBucketPolicy">>

AccessDenied == <<"ClientError", "AccessDenied">>

GetExistingBucketPolicyAccounts ==
  /\ policy.pc = "start"
  /\ LET result == policy.response
         raise(e) == [policy EXCEPT !.pc = "raised", !.result = e]
         return(v) == [policy EXCEPT !.pc = "returned", !.result = v]
     IN  policy' =
           IF result.error # None
           THEN IF result.error = MissingBucketPolicy THEN return(<<>>)
                ELSE raise(result.error)
           ELSE LET statement == result.Statement IN
                IF Len(statement) > 1 THEN raise(UnexpectedPolicy)
                ELSE IF Len(statement) = 0 THEN raise(<<"IndexError">>)
                ELSE LET principals == AsList(statement[1].Principal) IN
                     IF SetOf(statement[1].Action) # {"s3:GetObject", "s3:ListBucket"}
                     THEN raise(UnexpectedPolicy)
                     ELSE return([i \in DOMAIN principals |-> AccountId(principals[i])])
  /\ UNCHANGED policyRest

\* Statements somebody added to the policy after the first.
MoreStatements ==
  {[Principal |-> [list |-> FALSE, value |-> RootArn(<<"2">>)], Action |-> action] :
     action \in {<<"s3:GetObject", "s3:ListBucket">>, <<"s3:PutObject">>}}

\* The Statement lists tried: none, or one statement and up to
\* MaxStatements - 1 more.
StatementLists ==
  {<<>>} \cup {<<first>> \o more :
                 first \in Statements,
                 more \in UNION {[1..n -> MoreStatements] : n \in 0..(MaxStatements - 1)}}

\* The answers of get_bucket_policy: a policy document or an exception.
Responses ==
  {[error |-> None, Statement |-> statement] : statement \in StatementLists}
    \cup {[error |-> e, Statement |-> <<>>] : e \in {MissingBucketPolicy, AccessDenied}}

InitPolicy ==
  /\ SubmitOff
  /\ MonitorOff
  /\ LockOff
  /\ WorkerOff
  /\ CheckerOff
  /\ TriggerOff
  /\ BatchOff
  /\ DockerOff
  /\ LauncherOff
  /\ OptionsOff
  /\ ClogOff
  /\ RunsOff
  /\ policy \in [pc : {"start"}, response : Responses, result : {<<>>}]

NextPolicy == GetExistingBucketPolicyAccounts

SpecPolicy == InitPolicy /\ [][NextPolicy]_vars

\* ---------------------------------------- properties: bucket policy accounts

\* The digits of a principal ARN between "arn:aws:iam::" and the next colon.
AccountOf(arn) ==
  LET rest == SubSeq(arn, Len(ArnPrefix) + 1, Len(arn))
      stop == CHOOSE k \in 1..Len(rest) : rest[k] = ":" /\ \A m \in 1..(k - 1) : rest[m] # ":"
  IN  SubSeq(rest, 1, stop - 1)

\* The principal ARNs of the one statement, in the policy's order.
PrincipalsOf(response_) ==
  LET aws == response_.Statement[1].Principal IN
  IF aws.list THEN aws.value ELSE <<aws.value>>

\* C29: what get_existing_bucket_policy_accounts returns for a policy with
\* one statement is the account id of each principal ARN of that statement,
\* one per ARN and in the policy's order, and nothing else.
C29_AccountsOfPrincipals ==
  (policy.pc = "returned" /\ policy.response.error = None) =>
    /\ Len(policy.response.Statement) = 1
    /\ Len(policy.result) = Len(PrincipalsOf(policy.response))
    /\ \A i \in DOMAIN policy.result :
         policy.result[i] = AccountOf(PrincipalsOf(policy.response)[i])

\* The policy of the test: the one principal arn:aws:iam::10000000:root gives
\* ['10000000'].
C29_Witness ==
  /\ policy.pc = "returned"
  /\ policy.response.error = None
  /\ policy.response.Statement[1].Principal
       = [list |-> FALSE, value |-> RootArn(<<"1", "0", "0", "0", "0", "0", "0", "0">>)]
  /\ policy.result = <<<<"1", "0", "0", "0", "0", "0", "0", "0">>>>


\* ------------------------------------------- properties: wait failures

\* The current wait raised out of waiter.wait, after at least one poll.
WaitFailed ==
  /\ lop.name \in {"wait_for_set", "wait_for_unset"}
  /\ lpc = "raised"
  /\ polls > 0

\* C31: a wait that fails tells its two causes apart: a poll the store
\* answered with an error raises the store's request error (S3Exception),
\* and an exhausted attempt budget raises an exception of another class.
C31_WaitFailuresDistinguished ==
  WaitFailed =>
    /\ response \in Faults => Head(raised) = "S3Exception"
    /\ response \notin Faults => Head(raised) # "S3Exception"


\* ------------------------------------- properties: the dependency graph

\* The jobs the queued job j depends on, directly or through at most n
\* further jobs.
RECURSIVE Ancestors(_, _)
Ancestors(j, n) ==
  LET direct == {queue[j].dependsOn[k].jobId : k \in DOMAIN queue[j].dependsOn} IN
  IF n = 0 THEN direct
  ELSE direct \cup UNION {Ancestors(d, n - 1) : d \in direct \cap DOMAIN queue}

\* C38: every job id in a dependsOn list of submit_jobs is the id a
\* successful earlier submit call of the same invocation returned: none is
\* null, no phase depends on itself or on a later phase, and the graph of
\* the submitted jobs has no cycle.
C38_DependsOnEarlierSubmits ==
  /\ \A i \in DOMAIN calls :
       \A k \in DOMAIN calls[i].request.dependsOn :
         LET dep == calls[i].request.dependsOn[k].jobId IN
         /\ dep # None
         /\ dep # calls[i].jobId
         /\ \E e \in 1..(i - 1) : calls[e].ok /\ calls[e].jobId = dep
         /\ \A l \in i..Len(calls) : calls[l].jobId # dep
  /\ \A j \in DOMAIN queue : j \notin Ancestors(j, NumJobs)

\* All four phases are submitted: report depends on two jobs, each of which
\* depends on the build job.
C38_Witness ==
  /\ pc = "done"
  /\ \E i \in CallsOf("report") : Len(calls[i].request.dependsOn) = 2
  /\ \E i \in CallsOf("property") : Len(calls[i].request.dependsOn) = 1
  /\ \E j \in DOMAIN queue : Cardinality(Ancestors(j, NumJobs)) = 3


\* ------------------------------------------------ the six Lock methods

\* The lock names and bounds the six methods are called with here: one of
\* the four locks and three other strings; a bound of 12 seconds and two
\* that parse_bound rejects.
MethodNames == {"build.txt", "Build.txt", "lock.txt", ""}

MethodBounds == {<<"1", "2", "s">>, <<"3", "0">>, <<"x">>}

\* All six methods of one Lock instance called in any order, with no other
\* process writing the bucket.
NextMethods ==
  \/ \E lock \in MethodNames : Set(lock)
  \/ \E lock \in MethodNames : Unset(lock)
  \/ \E lock \in MethodNames : IsSet(lock)
  \/ \E lock \in MethodNames : IsUnset(lock)
  \/ \E lock \in MethodNames, interval \in LockIntervals, bound \in MethodBounds :
       WaitForSet(lock, interval, bound)
  \/ \E lock \in MethodNames, interval \in LockIntervals, bound \in MethodBounds :
       WaitForUnset(lock, interval, bound)
  \/ WaiterPoll

SpecMethods == InitLock /\ [][NextMethods]_vars

\* ------------------------------------- properties: validation comes first

\* The step is the call of a Lock method: no wait is polling before it.
MethodCalled == lpc # "polling" /\ lop' # lop

\* The step issued no request to the object store.
NoRequest == store' = store /\ (response' = response \/ (response' = None /\ polls' = 0))

\* C39: called with a lock name outside the four known names, each of the
\* six methods raises LockException without a request to the object store,
\* which is left as it was; wait_for_set and wait_for_unset with a known
\* name and a bound parse_bound rejects raise before their first poll.
C39_ValidationBeforeRequests ==
  [][/\ (MethodCalled /\ lop'.lock \notin {"build.txt", "property.txt", "coverage.txt",
                                          "report.txt"})
          => (lpc' = "raised" /\ raised' = LockException /\ NoRequest)
     /\ (MethodCalled /\ lop'.name \in {"wait_for_set", "wait_for_unset"}
                      /\ ~ParseBound(lop'.bound).ok)
          => (lpc' = "raised" /\ raised' = LockException /\ NoRequest /\ polls' = 0)]_vars

\* wait_for_unset('Build.txt') has raised while build.txt is set, and
\* before it is_unset('lock.txt') has.
C39_Witness ==
  /\ lop.name = "wait_for_unset"
  /\ lop.lock = "Build.txt"
  /\ lpc = "raised"
  /\ raised = LockException
  /\ polls = 0
  /\ KeyName(LockPath("build.txt")) \in store


\* -------------------------------- Batch.job_status called on its own

\* The queues job_status is called on: the first job in any status, the
\* others running.
AnyStatusQueue ==
  {[j \in {<<"j", Digits[i]>> : i \in 1..NumQueued} |->
      LET i == CHOOSE i \in 1..NumQueued : j = <<"j", Digits[i]>> IN
      IF i = 1 THEN [QueuedJob(i) EXCEPT !.status = first] ELSE QueuedJob(i)] :
     first \in {StatusOrder[i] : i \in DOMAIN StatusOrder}}

\* job_status(jobid, jobname) is called; the first list_jobs request is next.
InitJobStatus ==
  /\ self = [build |-> TRUE, property |-> TRUE, coverage |-> TRUE,
             report |-> TRUE, jobname |-> RunName]
  /\ pc = "off"
  /\ build_job = NoJob
  /\ property_job = NoJob
  /\ coverage_job = NoJob
  /\ report_job = NoJob
  /\ buildjob = <<>>
  /\ propertyjob = <<>>
  /\ coveragejob = <<>>
  /\ command = <<>>
  /\ results = None
  /\ raised = None
  /\ calls = <<>>
  /\ queue \in AnyStatusQueue
  /\ mpc = "poll"
  /\ args \in Filters
  /\ jobname = args.jobname
  /\ jobid = args.jobid
  /\ status = <<>>
  /\ jobs = <<>>
  /\ query = 1
  /\ poll_results = <<>>
  /\ listed = <<>>
  /\ output = <<>>
  /\ notified = FALSE
  /\ settled = FALSE
  /\ LockOff
  /\ MiscOff

NextJobStatus ==
  \/ ListJobs
  \/ ListJobsFail
  \/ JobAdvance

SpecJobStatus == InitJobStatus /\ [][NextJobStatus]_vars

\* ------------------------------------------- properties: job_status

\* The job is one the call's filter asks for.
Wanted(j) ==
  \/ jobid # None /\ jobid # <<>> /\ Search(jobid, j)
  \/ jobname # None /\ jobname # <<>> /\ Search(jobname, queue[j].jobName)

\* The results of job_status after the step, returned or still collected.
Collected == IF mpc = "process" THEN jobs ELSE poll_results

Forward(a, b) == a = b \/ (a \notin Terminal /\ StatusIndex(a) < StatusIndex(b))

\* C37: the status monitor_status records for a job id never moves backward,
\* across polls (each recorded entry is followed by itself or a later
\* status) and within one poll (the polled list holds a job's entries in
\* forward order, none behind the recorded status); a recorded SUCCEEDED or
\* FAILED never changes, and no tracked job leaves the map.
C37_RecordedStatusMonotonic ==
  [][/\ \A i \in DOMAIN status :
          /\ i \in DOMAIN status'
          /\ status'[i].jobId = status[i].jobId
          /\ Forward(status[i].status, status'[i].status)
          /\ status[i].status \in Terminal => status'[i] = status[i]
     /\ mpc = "process" =>
          /\ \A i, k \in DOMAIN jobs :
               (i < k /\ jobs[i].jobId = jobs[k].jobId)
                 => Forward(jobs[i].status, jobs[k].status)
          /\ \A i \in DOMAIN jobs : \A k \in DOMAIN status :
               status[k].jobId = jobs[i].jobId
                 => Forward(status[k].status, jobs[i].status)]_vars

\* A further poll begins with one job recorded as SUCCEEDED, which was
\* first seen SUBMITTED, and another still recorded as RUNNING.
C37_Witness ==
  /\ mpc = "poll"
  /\ Len(status) = 2
  /\ status[1].status = "SUCCEEDED"
  /\ status[2].status = "RUNNING"
  /\ queue[status[2].jobId].status = "FAILED"


\* ------------------------- monitor_status beside a process that submits

\* Jobs that are submitted while monitor_status runs.
MaxArrivals == 1

\* Another process submits the next job of the run.
JobArrives ==
  /\ Cardinality(DOMAIN queue) < MaxArrivals
  /\ LET i == Cardinality(DOMAIN queue) + 1
         jid == <<"j", Digits[i]>>
     IN  queue' = [j \in DOMAIN queue \cup {jid} |->
                     IF j = jid THEN QueuedJob(i) ELSE queue[j]]
  /\ UNCHANGED <<miscVars, lockVars, orchVars, calls, monVars>>

\* monitor_status is called while the queue is still empty.
InitArrival ==
  /\ self = [build |-> TRUE, property |-> TRUE, coverage |-> TRUE,
             report |-> TRUE, jobname |-> RunName]
  /\ pc = "off"
  /\ build_job = NoJob
  /\ property_job = NoJob
  /\ coverage_job = NoJob
  /\ report_job = NoJob
  /\ buildjob = <<>>
  /\ propertyjob = <<>>
  /\ coveragejob = <<>>
  /\ command = <<>>
  /\ results = None
  /\ raised = None
  /\ calls = <<>>
  /\ queue = <<>>
  /\ mpc = "start"
  /\ args \in Filters
  /\ jobname = args.jobname
  /\ jobid = args.jobid
  /\ status = <<>>
  /\ jobs = <<>>
  /\ query = 1
  /\ poll_results = <<>>
  /\ listed = <<>>
  /\ output = <<>>
  /\ notified = FALSE
  /\ settled = FALSE
  /\ LockOff
  /\ MiscOff

NextArrival ==
  \/ MonitorBegin
  \/ ListJobs
  \/ ListJobsFail
  \/ MonitorRecord
  \/ MonitorSleep
  \/ JobAdvance
  \/ JobArrives

SpecArrival == InitArrival /\ [][NextArrival]_vars

\* ------------------------------------------ properties: the empty poll

\* C40: when the first poll of monitor_status matched no job, monitor_status
\* returns after that poll without a notification, and it polls no more,
\* whatever jobs become visible afterwards.
C40_EmptyFirstPollReturns ==
  [][/\ (mpc = "process" /\ mpc' # mpc /\ status = <<>> /\ jobs = <<>>)
          => (mpc' = "returned" /\ ~notified' /\ output' = output /\ status' = <<>>)
     /\ mpc = "returned" => (mpc' = "returned" /\ status' = status /\ listed' = listed)]_vars

\* monitor_status has returned with nothing tracked and nothing printed,
\* and a job its filter matches is in the queue, not yet final.
C40_Witness ==
  /\ mpc = "returned"
  /\ status = <<>>
  /\ output = <<>>
  /\ \E j \in DOMAIN queue :
       /\ Matches(args.jobid, args.jobname, j, queue[j].jobName)
       /\ queue[j].status \notin Terminal


\* ----------------------------- ci/snapshot/prepare_source.py source_prepare

\* The context of the statuses source_prepare posts for the whole commit
\* ("Proof jobs starting"); the statuses of a proof carry its index.
JobsStarting == 0

\* update_status("pending", "Proof jobs starting", ...), the first statement
\* of the try block.  update_status catches a failed GitHub request itself;
\* it raises when its CloudWatch request fails.
PreparePending ==
  /\ launcher.pc = "source_prepare"
  /\ \E ok \in BOOLEAN :
       launcher' = IF ok
                   THEN [launcher EXCEPT !.posted = Post("pending", JobsStarting),
                                         !.pc = "prepare"]
                   ELSE [launcher EXCEPT !.pc = "except_prepare"]
  /\ UNCHANGED launcherRest

\* clone_repository ... upload_tarfile_to_s3: the source is prepared, or one
\* of the steps raises; then generate_cbmc_jobs is called.
PrepareSource ==
  /\ launcher.pc = "prepare"
  /\ \E ok \in BOOLEAN :
       launcher' = [launcher EXCEPT !.pc = IF ok THEN "next" ELSE "except_prepare"]
  /\ UNCHANGED launcherRest

\* generate_cbmc_jobs returned: logger.summary(SUCCEEDED, ...) and
\* update_status("success", "Proof jobs starting", ...).
PrepareSucceeded ==
  /\ launcher.pc = "returned"
  /\ \E ok \in BOOLEAN :
       launcher' = IF ok
                   THEN [launcher EXCEPT !.posted = Post("success", JobsStarting),
                                         !.pc = "prepared"]
                   ELSE [launcher EXCEPT !.pc = "except_prepare"]
  /\ UNCHANGED launcherRest

\* except Exception as e: logger.summary(FAILED, ...), update_status("error",
\* "Proof jobs starting", ...), raise e.  The exception comes from
\* generate_cbmc_jobs or from another statement of the try block.
PrepareFailed ==
  /\ launcher.pc \in {"raised", "except_prepare"}
  /\ \E ok \in BOOLEAN :
       launcher' = IF ok
                   THEN [launcher EXCEPT !.posted = Post("error", JobsStarting),
                                         !.pc = "failed"]
                   ELSE [launcher EXCEPT !.pc = "failed"]
  /\ UNCHANGED launcherRest

InitPrepare ==
  /\ SubmitOff
  /\ MonitorOff
  /\ LockOff
  /\ WorkerOff
  /\ CheckerOff
  /\ TriggerOff
  /\ BatchOff
  /\ DockerOff
  /\ OptionsOff
  /\ ClogOff
  /\ RunsOff
  /\ PolicyOff
  /\ launcher = [pc |-> "source_prepare", task |-> 1, submitted |-> <<>>, posted |-> <<>>,
                 pending_exception |-> FALSE]

NextPrepare ==
  \/ PreparePending
  \/ PrepareSource
  \/ RunBatch
  \/ LaunchChild
  \/ Bookkeep
  \/ UpdatePending
  \/ HandleException
  \/ LauncherEnd
  \/ PrepareSucceeded
  \/ PrepareFailed

SpecPrepare == InitPrepare /\ [][NextPrepare]_vars

\* ------------------------------------ properties: source_prepare statuses

\* The statuses posted for the "Proof jobs starting" context, in order.
StartingStatuses ==
  SelectSeq(launcher.posted, LAMBDA post : post.proof = JobsStarting)

\* C34: once generate_cbmc_jobs has ended, every proof was attempted, and it
\* raised exactly if a launch failed; and when source_prepare has ended after
\* calling it, it has posted 'pending' and then exactly one final status for
\* "Proof jobs starting": 'error' if a proof launch failed, 'success' if none.
C34_AllAttemptedOneFinalStatus ==
  /\ launcher.pc \in {"returned", "raised"} =>
       /\ Len(launcher.submitted) = NumProofs
       /\ launcher.task = NumProofs + 1
       /\ (launcher.pc = "raised") = launcher.pending_exception
  /\ (launcher.pc \in {"prepared", "failed"} /\ launcher.submitted # <<>>) =>
       /\ Len(launcher.submitted) = NumProofs
       /\ StartingStatuses =
            <<[state |-> "pending", proof |-> JobsStarting],
              [state |-> IF launcher.pending_exception THEN "error" ELSE "success",
               proof |-> JobsStarting]>>


\* ------------------------------------- ci/codepipeline/trigger.py handler

\* The *.yaml files found in the workspace of an event, at most.
MaxYamls == 2

\* The output artifacts of an event, at most.
MaxOutputs == 2

triggerRest == <<worker, checker, backend, batch, docker, launcher, options, clog, runs, policy, lockVars,
                 orchVars, queue, calls, monVars>>

\* An exception is raised inside the try block of lambda_handler.
TriggerRaise == [trigger EXCEPT !.raised = TRUE, !.pc = "except"]

\* job_id and job_data are read; an event carrying a continuation token is
\* rejected with Exception('Trigger should not be invoked twice').
RejectContinuation ==
  /\ trigger.pc = "begin"
  /\ trigger' = IF trigger.token THEN TriggerRaise
                                 ELSE [trigger EXCEPT !.pc = "get_user_params"]
  /\ UNCHANGED triggerRest

\* params = get_user_params(job_data): raises when the user parameters are
\* not JSON or lack region, project_name, s3_bucket or src_artifact.
GetUserParams ==
  /\ trigger.pc = "get_user_params"
  /\ trigger' = IF trigger.valid
                THEN [trigger EXCEPT !.params = TRUE, !.pc = "attempts"]
                ELSE TriggerRaise
  /\ UNCHANGED triggerRest

\* lambda_pipeline.put_metric(..., 'Attempts'): a request to CloudWatch,
\* which may raise.
PutMetricAttempts ==
  /\ trigger.pc = "attempts"
  /\ \E ok \in BOOLEAN :
       trigger' = IF ok THEN [trigger EXCEPT !.pc = "extract_artifacts"] ELSE TriggerRaise
  /\ UNCHANGED triggerRest

\* extract_artifacts(...): the input artifacts are downloaded from S3 and
\* unpacked, or a request raises.
ExtractArtifacts ==
  /\ trigger.pc = "extract_artifacts"
  /\ \E ok \in BOOLEAN :
       trigger' = IF ok THEN [trigger EXCEPT !.pc = "start_batch"] ELSE TriggerRaise
  /\ UNCHANGED triggerRest

\* start_batch: raises when the workspace holds no yaml file; otherwise one
\* cbmc_batch.main() per yaml file, which may raise, and the job name is
\* appended to jobs.
StartBatch ==
  /\ trigger.pc = "start_batch"
  /\ \/ /\ trigger.yamls = 0
        /\ trigger' = TriggerRaise
     \/ /\ trigger.jobs < trigger.yamls
        /\ \E ok \in BOOLEAN :
             trigger' = IF ok THEN [trigger EXCEPT !.jobs = @ + 1] ELSE TriggerRaise
     \/ /\ trigger.yamls > 0
        /\ trigger.jobs = trigger.yamls
        /\ trigger' = [trigger EXCEPT !.pc = "record_jobs"]
  /\ UNCHANGED triggerRest

\* record_jobs(job_data['outputArtifacts'], jobs): raises unless there is
\* exactly one output artifact; the pickled job list is uploaded to it, or
\* the upload raises.
RecordJobs ==
  /\ trigger.pc = "record_jobs"
  /\ \E ok \in BOOLEAN :
       trigger' = IF ok /\ trigger.outputs = 1
                  THEN [trigger EXCEPT !.recorded = TRUE, !.pc = "put_job_success"]
                  ELSE TriggerRaise
  /\ UNCHANGED triggerRest

\* lambda_pipeline.put_job_success(job_id, ...), the last statement of the
\* try block: put_job_success_result is accepted, or the request raises.
PutJobSuccess ==
  /\ trigger.pc = "put_job_success"
  /\ \E ok \in BOOLEAN :
       trigger' = IF ok THEN [trigger EXCEPT !.reports = Append(@, "success"),
                                             !.pc = "complete"]
                        ELSE TriggerRaise
  /\ UNCHANGED triggerRest

\* except Exception: put_metric(params['region'], params['project_name'],
\* 'Errors').  While params is unbound the expression raises
\* UnboundLocalError, which leaves lambda_handler; so does a failed request.
PutMetricErrors ==
  /\ trigger.pc = "except"
  /\ \/ /\ ~trigger.params
        /\ trigger' = [trigger EXCEPT !.pc = "handler_raised"]
     \/ /\ trigger.params
        /\ \E ok \in BOOLEAN :
             trigger' = [trigger EXCEPT !.pc = IF ok THEN "put_job_failure"
                                                     ELSE "handler_raised"]
  /\ UNCHANGED triggerRest

\* lambda_pipeline.put_job_failure(job_id, ...): put_job_failure_result is
\* accepted, or the request raises and leaves lambda_handler.
PutJobFailure ==
  /\ trigger.pc = "put_job_failure"
  /\ \E ok \in BOOLEAN :
       trigger' = IF ok THEN [trigger EXCEPT !.reports = Append(@, "failure"),
                                             !.pc = "complete"]
                        ELSE [trigger EXCEPT !.pc = "handler_raised"]
  /\ UNCHANGED triggerRest

\* lambda_handler is invoked with an event for a CodePipeline job.
InitTrigger ==
  /\ SubmitOff
  /\ MonitorOff
  /\ LockOff
  /\ WorkerOff
  /\ CheckerOff
  /\ BatchOff
  /\ DockerOff
  /\ LauncherOff
  /\ OptionsOff
  /\ ClogOff
  /\ RunsOff
  /\ PolicyOff
  /\ \E token \in BOOLEAN, valid \in BOOLEAN, yamls \in 0..MaxYamls,
        outputs \in 0..MaxOutputs :
       trigger = [pc |-> "begin", token |-> token, valid |-> valid, yamls |-> yamls,
                  outputs |-> outputs,
                  params |-> FALSE, jobs |-> 0, recorded |-> FALSE,
                  raised |-> FALSE, reports |-> <<>>]

NextTrigger ==
  \/ RejectContinuation
  \/ GetUserParams
  \/ PutMetricAttempts
  \/ ExtractArtifacts
  \/ StartBatch
  \/ RecordJobs
  \/ PutJobSuccess
  \/ PutMetricErrors
  \/ PutJobFailure

SpecTrigger == InitTrigger /\ [][NextTrigger]_vars

\* ------------------------------------------- properties: trigger results

\* lambda_handler has ended, by returning or by raising.
TriggerEnded == trigger.pc \in {"complete", "handler_raised"}

\* C32: an ended invocation of the trigger has reported exactly one result
\* to CodePipeline: success when the batch jobs were started and recorded
\* and no exception was raised, failure when an exception was raised.
C32_ExactlyOneResult ==
  TriggerEnded =>
    /\ Len(trigger.reports) = 1
    /\ trigger.raised => trigger.reports = <<"failure">>
    /\ ~trigger.raised =>
         /\ trigger.reports = <<"success">>
         /\ trigger.recorded
         /\ trigger.jobs = trigger.yamls


\* ------------------------------- ci/codepipeline/check_status.py batch_status

\* The job names of a job list, at most.
MaxNames == 2

\* The status lines cbmc_status prints for one job name, at most.
MaxLines == 2

checkerRest == <<worker, trigger, backend, batch, docker, launcher, options, clog, runs, policy,
                 lockVars, orchVars, queue, calls, monVars>>

\* The job lists: job names are told apart by their position.
JobLists == {[i \in 1..n |-> i] : n \in 0..MaxNames}

\* What current_status prints for a job name: one line "jobName: status" per
\* matching batch job, in the order job_status collects them, which is the
\* order of its seven queries (possibly no line at all).  A line is kept as
\* the status it ends in.
StatusLines ==
  {lines \in SeqsUpTo({StatusOrder[i] : i \in DOMAIN StatusOrder}, MaxLines) :
     \A i, j \in DOMAIN lines : i < j => StatusIndex(lines[i]) <= StatusIndex(lines[j])}

\* line.endswith(": " + status) for a line printed by display.
EndsWith(line, suffix) == line = suffix

\* all_succeeded after the lines from position i on were read (lines without
\* a FAILED one).
RECURSIVE ReadLines(_, _, _)
ReadLines(lines, i, all_succeeded) ==
  IF i > Len(lines) THEN all_succeeded
  ELSE ReadLines(lines, i + 1, all_succeeded /\ EndsWith(lines[i], "SUCCEEDED"))

\* A line of the output ends in ": FAILED".
HasFailed(lines) == \E i \in DOMAIN lines : EndsWith(lines[i], "FAILED")

\* if not jobs: raise Exception("No jobs found"); all_succeeded = True.
BatchStatusBegin ==
  /\ checker.pc = "begin"
  /\ checker' = [checker EXCEPT !.pc = IF checker.jobs = <<>> THEN "raised" ELSE "loop"]
  /\ UNCHANGED checkerRest

\* One iteration of the loop over jobs: cbmc_status.main() writes the status
\* lines of the job name (or raises), and the lines are read: at the first
\* one ending in ": FAILED" the 'Failures' metric and the job failure are
\* put and batch_status returns; a line not ending in ": SUCCEEDED" clears
\* all_succeeded.
CurrentStatus ==
  /\ checker.pc = "loop"
  /\ Len(checker.output) < Len(checker.jobs)
  /\ \/ checker' = [checker EXCEPT !.pc = "raised"]
     \/ \E lines \in StatusLines, ok \in BOOLEAN :
          checker' =
            IF HasFailed(lines)
            THEN IF ok
                 THEN [checker EXCEPT !.output = Append(@, lines),
                                      !.outcomes = Append(@, [kind |-> "failure"]),
                                      !.pc = "returned"]
                 ELSE [checker EXCEPT !.output = Append(@, lines), !.pc = "raised"]
            ELSE [checker EXCEPT !.output = Append(@, lines),
                                 !.all_succeeded = ReadLines(lines, 1, @)]
  /\ UNCHANGED checkerRest

\* After the loop: the 'Successes' metric and put_job_success when
\* all_succeeded, else continue_job_later(job_id, ..., jobs), whose token is
\* pickle.dumps(jobs); each request may raise.
Conclude ==
  /\ checker.pc = "loop"
  /\ Len(checker.output) = Len(checker.jobs)
  /\ \E ok \in BOOLEAN :
       checker' =
         IF ~ok THEN [checker EXCEPT !.pc = "raised"]
         ELSE IF checker.all_succeeded
         THEN [checker EXCEPT !.outcomes = Append(@, [kind |-> "success"]),
                              !.pc = "returned"]
         ELSE [checker EXCEPT !.outcomes =
                                Append(@, [kind |-> "continue", token |-> checker.jobs]),
                              !.pc = "returned"]
  /\ UNCHANGED checkerRest

\* batch_status is called with a job list.
InitChecker ==
  /\ SubmitOff
  /\ MonitorOff
  /\ LockOff
  /\ WorkerOff
  /\ BatchOff
  /\ DockerOff
  /\ LauncherOff
  /\ OptionsOff
  /\ ClogOff
  /\ RunsOff
  /\ PolicyOff
  /\ TriggerOff
  /\ \E names \in JobLists :
       checker = [pc |-> "begin", jobs |-> names, output |-> <<>>, all_succeeded |-> TRUE,
                  outcomes |-> <<>>]

NextChecker ==
  \/ BatchStatusBegin
  \/ CurrentStatus
  \/ Conclude

SpecChecker == InitChecker /\ [][NextChecker]_vars

\* ---------------------------------------- properties: batch_status outcome

\* A status line ending in FAILED was printed for some listed job name.
SomeFailed == \E n \in DOMAIN checker.output : HasFailed(checker.output[n])

\* For every listed job name a batch job was observed, and every observed
\* batch job is SUCCEEDED.
AllObservedSucceeded ==
  /\ Len(checker.output) = Len(checker.jobs)
  /\ \A n \in DOMAIN checker.output :
       /\ checker.output[n] # <<>>
       /\ \A i \in DOMAIN checker.output[n] : checker.output[n][i] = "SUCCEEDED"

\* C33: when batch_status has returned it has reported exactly one outcome:
\* failure if a status line ended in FAILED, and then no further job name
\* was looked at; success only if for every listed name a batch job was
\* observed and all observed ones are SUCCEEDED; otherwise a continuation
\* whose token is the job list.
C33_OneOutcomeOfStatuses ==
  checker.pc = "returned" =>
    /\ Len(checker.outcomes) = 1
    /\ SomeFailed =>
         /\ checker.outcomes[1].kind = "failure"
         /\ HasFailed(checker.output[Len(checker.output)])
    /\ checker.outcomes[1].kind = "success" => AllObservedSucceeded
    /\ (~SomeFailed /\ ~AllObservedSucceeded) =>
         checker.outcomes[1] = [kind |-> "continue", token |-> checker.jobs]


\* ----------------------------- ci/snapshot/github_worker_lambda.py handler

\* The messages on the GitHub queue, at most.
MaxMessages == 2

\* The receive_message calls within the five minutes of one invocation, at
\* most.
MaxReceives == 2

\* The largest rate limit left and the longest time to its reset, in
\* seconds, that GitHub reports.
MaxCalls == 2

MaxSeconds == 2

workerRest == <<checker, trigger, backend, batch, docker, launcher, options, clog, runs,
                policy, lockVars, orchVars, queue, calls, monVars>>

Messages == 1..MaxMessages

\* The elements of a set of messages in some order, as receive_messages
\* returns them.
RECURSIVE InOrder(_)
InOrder(S) ==
  IF S = {} THEN <<>>
  ELSE LET m == CHOOSE x \in S : \A y \in S : x <= y IN <<m>> \o InOrder(S \ {m})

\* GithubUpdater(repo_id, oath_token): remaining_calls and seconds_to_reset
\* are read from GitHub once, when the updater is made; seconds_to_reset is
\* negative when the reset time has passed.
GithubUpdaters ==
  [remaining_calls : 0..MaxCalls, seconds_to_reset : (0 - 1)..MaxSeconds]

OutOfCalls_Strict(g) == g.remaining_calls < g.seconds_to_reset

\* elif g.remaining_calls <= g.seconds_to_reset: the worker goes to sleep
\* without pushing to GitHub.
OutOfCalls(g) == g.remaining_calls <= g.seconds_to_reset

\* g.update_status(status=..., proof_name=..., commit_sha=...,
\* pull_request=..., cloudfront_url=..., description=...) as the worker calls
\* it.  GithubUpdater.update_status has no parameter pull_request, so the
\* call raises TypeError before any request is sent to GitHub: the results
\* "delivered" (create_status returned), "404" (UnknownObjectException) and
\* "GithubException" are those of a call that reaches create_status.
UpdateStatus(m) == "TypeError"

\* One pass of `while time.time() < t_end`: sqs.receive_message() returns
\* some of the messages on the queue, possibly none.
ReceiveMessage ==
  /\ worker.pc = "while"
  /\ worker.received = <<>>
  /\ worker.polls < MaxReceives
  /\ \E S \in SUBSET worker.inbox :
       worker' = [worker EXCEPT !.received = InOrder(S), !.polls = @ + 1]
  /\ UNCHANGED workerRest

\* time.time() >= t_end: the loop ends and lambda_handler returns.
TimeLimit ==
  /\ worker.pc = "while"
  /\ worker.received = <<>>
  /\ worker' = [worker EXCEPT !.pc = "returned"]
  /\ UNCHANGED workerRest

\* The body of `for m in sqs.receive_message()` for the next message: the
\* updater is made for the first message (which may raise); with no call
\* left the handler raises, with too few calls left it returns; otherwise
\* the status update is tried, the message is deleted after it returned or
\* after a 404, kept after another GithubException, and any other exception
\* leaves lambda_handler.
HandleMessage ==
  /\ worker.pc = "while"
  /\ worker.received # <<>>
  /\ LET m == Head(worker.received) IN
     \/ /\ worker.g = <<>>
        /\ worker' = [worker EXCEPT !.pc = "raised"]
     \/ \E made \in (IF worker.g = <<>> THEN GithubUpdaters ELSE {worker.g[1]}) :
          LET out == UpdateStatus(m) IN
          worker' =
            IF made.remaining_calls = 0
            THEN [worker EXCEPT !.g = <<made>>, !.pc = "raised"]
            ELSE IF OutOfCalls(made)
            THEN [worker EXCEPT !.g = <<made>>, !.pc = "returned"]
            ELSE [worker EXCEPT
                    !.g = <<IF out = "delivered"
                            THEN [made EXCEPT !.remaining_calls = @ - 1]
                            ELSE made>>,
                    !.attempts = Append(@, [message |-> m, g |-> made]),
                    !.outcome = Append(@, [message |-> m, result |-> out]),
                    !.inbox = IF out \in {"delivered", "404"} THEN @ \ {m} ELSE @,
                    !.received = IF out \in {"delivered", "404", "GithubException"}
                                 THEN Tail(@) ELSE @,
                    !.pc = IF out \in {"delivered", "404", "GithubException"}
                           THEN "while" ELSE "raised"]
  /\ UNCHANGED workerRest

\* The worker is invoked with some messages on the queue.
InitWorker ==
  /\ SubmitOff
  /\ MonitorOff
  /\ LockOff
  /\ BatchOff
  /\ DockerOff
  /\ LauncherOff
  /\ OptionsOff
  /\ ClogOff
  /\ RunsOff
  /\ PolicyOff
  /\ TriggerOff
  /\ CheckerOff
  /\ \E S \in SUBSET Messages :
       worker = [pc |-> "while", inbox |-> S, received |-> <<>>, g |-> <<>>, polls |-> 0,
                 outcome |-> <<>>, attempts |-> <<>>]

NextWorker ==
  \/ ReceiveMessage
  \/ TimeLimit
  \/ HandleMessage

SpecWorker == InitWorker /\ [][NextWorker]_vars

\* -------------------------------------- properties: GitHub worker messages

\* The results of the status updates tried for message m.
ResultsOf(m) ==
  {worker.outcome[i].result : i \in {k \in DOMAIN worker.outcome :
                                        worker.outcome[k].message = m}}

====
